---- MODULE Spec2Model ----
(***************************************************************************)
(* Crawl job engine of apps/crawler: the URL frontier (crawler/frontier.rs)*)
(* and the job manager with its per-job runner (jobs/mod.rs).              *)
(*                                                                         *)
(* Two specifications are given:                                           *)
(*   SpecFrontier  the Frontier object alone, driven by arbitrary          *)
(*                 interleavings of next() and add_discovered();           *)
(*   Spec          one job from submit() through run_crawl_job() to its    *)
(*                 end, with cancel() called at any moment.                *)
(***************************************************************************)
EXTENDS Integers, Sequences, FiniteSets, TLC

(***************************************************************************)
(* Bounds of the model.                                                    *)
(***************************************************************************)
\* longest seed list handed to Frontier::new in SpecFrontier
MaxSeeds == 2
\* largest max_depth / depth argument tried
MaxDepthBound == 2

(***************************************************************************)
(* URLs.  A URL string is modelled by its components; the path is the      *)
(* sequence of its characters.  A string without a scheme does not parse.  *)
(***************************************************************************)
Url(scheme, host, path, fragment) ==
    [scheme |-> scheme, host |-> host, path |-> path, fragment |-> fragment]

\* Option::None for a URL
None == Url("", "", <<>>, "none")

\* "https://e.com"
U_root == Url("https", "e.com", <<>>, "")
\* "HTTPS://E.com/a/#x"
U_aFrag == Url("HTTPS", "E.com", <<"/", "a", "/">>, "x")
\* "https://e.com/a"
U_a == Url("https", "e.com", <<"/", "a">>, "")
\* "https://e.com/b"
U_b == Url("https", "e.com", <<"/", "b">>, "")
\* "https://e.com/c"
U_c == Url("https", "e.com", <<"/", "c">>, "")
\* "https://e.com/a//"
U_aSlashSlash == Url("https", "e.com", <<"/", "a", "/", "/">>, "")
\* "not-a-valid-url"
U_bad == Url("", "", <<"n">>, "")

RawUrls == {U_root, U_aFrag, U_a, U_aSlashSlash, U_bad}

\* ASCII lower-casing of the scheme and host strings that occur
Lower(s) ==
    CASE s = "HTTPS" -> "https"
      [] s = "E.com" -> "e.com"
      [] s = "JavaScript" -> "javascript"
      [] OTHER -> s

\* Url::parse(raw).ok(): scheme and host lower-cased, empty path becomes "/"
UrlParse(raw) ==
    IF raw.scheme = "" THEN None
    ELSE Url(Lower(raw.scheme), Lower(raw.host),
             IF raw.path = <<>> THEN <<"/">> ELSE raw.path, raw.fragment)

\* normalize_url: drop the fragment; drop ONE trailing slash of a path longer than "/"
normalize_url(raw) ==
    LET parsed == UrlParse(raw) IN
    IF parsed = None THEN None
    ELSE LET path == parsed.path IN
         Url(parsed.scheme, parsed.host,
             IF Len(path) > 1 /\ path[Len(path)] = "/"
               THEN SubSeq(path, 1, Len(path) - 1) ELSE path,
             "")

(***************************************************************************)
(* FrontierEntry and its order.                                            *)
(***************************************************************************)
FrontierEntry(url, depth) == [url |-> url, depth |-> depth]

\* a <= b in impl Ord for FrontierEntry: Reverse(a.depth) <= Reverse(b.depth)
EntryLeDeep(a, b) == a.depth <= b.depth
EntryLe(a, b) == a.depth >= b.depth

(***************************************************************************)
(* BinaryHeap<FrontierEntry>: the Vec behind the heap, 0-based positions.  *)
(* push and pop are the standard library's: push = append + sift_up;       *)
(* pop = take the last, swap it with the root, sift_down_to_bottom,        *)
(* sift_up.                                                                *)
(***************************************************************************)
At(data, i) == data[i + 1]
Put(data, i, e) == [data EXCEPT ![i + 1] = e]

RECURSIVE SiftUp(_, _, _, _)
\* the hole is at pos and holds elt; move it up while elt > parent
SiftUp(data, start, pos, elt) ==
    IF pos > start
      THEN LET parent == (pos - 1) \div 2 IN
           IF EntryLe(elt, At(data, parent))
             THEN Put(data, pos, elt)
             ELSE SiftUp(Put(data, pos, At(data, parent)), start, parent, elt)
      ELSE Put(data, pos, elt)

RECURSIVE SiftDownToBottom(_, _, _, _)
\* the hole is at pos and holds elt; move it down to a leaf along the greater
\* child (the right one on a tie), then sift the element back up
SiftDownToBottom(data, start, pos, elt) ==
    LET end == Len(data)
        child == 2 * pos + 1
    IN  IF end >= 2 /\ child <= end - 2
          THEN LET c == IF EntryLe(At(data, child), At(data, child + 1))
                          THEN child + 1 ELSE child
               IN  SiftDownToBottom(Put(data, pos, At(data, c)), start, c, elt)
          ELSE IF child = end - 1
                 THEN SiftUp(Put(data, pos, At(data, child)), start, child, elt)
                 ELSE SiftUp(data, start, pos, elt)

HeapPush(data, e) == SiftUp(Append(data, e), 0, Len(data), e)

\* pop of a non-empty heap: [item, data]
HeapPop(data) ==
    LET last == data[Len(data)]
        rest == SubSeq(data, 1, Len(data) - 1)
    IN  IF rest = <<>> THEN [item |-> last, data |-> rest]
        ELSE [item |-> rest[1], data |-> SiftDownToBottom(rest, 0, 0, last)]

(***************************************************************************)
(* Frontier.                                                               *)
(***************************************************************************)
\* the body of the loops of Frontier::new and add_discovered for one url
InsertUnchecked(f, raw_url, depth) ==
    LET normalized == normalize_url(raw_url) IN
    IF normalized = None THEN f
    ELSE [f EXCEPT !.seen = @ \cup {normalized},
                   !.queue = HeapPush(@, FrontierEntry(normalized, depth))]
InsertOne(f, raw_url, depth) ==
    LET normalized == normalize_url(raw_url) IN
    IF normalized = None \/ normalized \in f.seen THEN f
    ELSE [f EXCEPT !.seen = @ \cup {normalized},
                   !.queue = HeapPush(@, FrontierEntry(normalized, depth))]

RECURSIVE InsertAll(_, _, _)
InsertAll(f, urls, depth) ==
    IF urls = <<>> THEN f
    ELSE InsertAll(InsertOne(f, Head(urls), depth), Tail(urls), depth)

\* Frontier::new(seed_urls, max_depth)
FrontierNew(seed_urls, max_depth) ==
    InsertAll([queue |-> <<>>, seen |-> {}, max_depth |-> max_depth, crawled |-> 0],
              seed_urls, 0)

\* Frontier::next: [ret, f]; ret = None-entry when the queue is empty
NoEntry == FrontierEntry(None, 0)
FrontierNext(f) ==
    IF f.queue = <<>> THEN [ret |-> NoEntry, f |-> f]
    ELSE LET p == HeapPop(f.queue) IN
         [ret |-> p.item, f |-> [f EXCEPT !.queue = p.data, !.crawled = @ + 1]]

\* Frontier::add_discovered(urls, depth)
add_discovered_nogate(f, urls, depth) == InsertAll(f, urls, depth)
add_discovered(f, urls, depth) ==
    IF depth > f.max_depth THEN f ELSE InsertAll(f, urls, depth)

pending_count(f) == Len(f.queue)
crawled_count(f) == f.crawled

(***************************************************************************)
(* Job manager and job runner (jobs/mod.rs).                               *)
(***************************************************************************)
\* largest max_pages tried
MaxPagesBound == 2
\* largest max_concurrent_fetches tried
MaxWorkersBound == 2
\* last value of the clock (seconds)
MaxTime == 1

\* "https://x.org/"
U_ext == Url("https", "x.org", <<"/">>, "")

\* the job that is submitted, and an identifier that never is
JobId == "j1"
JobIds == {"j1", "j2"}

\* Option<T>: None is <<>>, Some(x) is <<x>>
Some(x) == <<x>>

\* CrawlStats; elapsed_s, a wall-clock reading no decision depends on, is left out
CrawlStats(pages_found, pages_crawled, pages_errored) ==
    [pages_found |-> pages_found, pages_crawled |-> pages_crawled,
     pages_errored |-> pages_errored]

\* JobEntry as submit() creates it
NewJobEntry == [status |-> "Queued", stats |-> <<>>, cancel_token |-> FALSE]

\* ExtractedLink of an external link
ExtractedLink(url, anchor_text, rel) ==
    [url |-> url, anchor_text |-> anchor_text, rel |-> rel, is_external |-> TRUE]

\* what a successful page pipeline can return: the links of the page
PageShapes ==
    { [internal_links |-> <<>>, external_link_details |-> <<>>],
      [internal_links |-> <<U_aFrag, U_b>>,
       external_link_details |-> <<ExtractedLink(U_ext, "x", "nofollow"),
                                   ExtractedLink(U_bad, "bad", "")>>] }

CrawlPageResult(url, shape) ==
    [url |-> url, internal_links |-> shape.internal_links,
     external_link_details |-> shape.external_link_details]

\* CrawlEngine::domain_from_url(..).unwrap_or_default()
domain_from_url(url) == LET u == UrlParse(url) IN IF u = None THEN "" ELSE u.host

RECURSIVE PageBacklinks(_, _)
PageBacklinks(page, links) ==
    IF links = <<>> THEN <<>>
    ELSE LET link == Head(links)
             target_domain == domain_from_url(link.url)
         IN  (IF target_domain = "" THEN <<>>
              ELSE << [source_url |-> page.url,
                       source_domain |-> domain_from_url(page.url),
                       target_url |-> link.url, target_domain |-> target_domain,
                       anchor_text |-> link.anchor_text, rel |-> link.rel] >>)
             \o PageBacklinks(page, Tail(links))

RECURSIVE collect_backlink_entries(_)
collect_backlink_entries(pages) ==
    IF pages = <<>> THEN <<>>
    ELSE PageBacklinks(Head(pages), Head(pages).external_link_details)
           \o collect_backlink_entries(Tail(pages))

\* the seed lists, sitemap results and batch thresholds tried
BatchThresholds == {1, 2}
JobSeedLists == {<<U_root, U_aFrag>>}
SitemapLists == {<<>>, <<U_b, U_a>>}

\* the first n elements of a list (Iterator::take)
Take(list, n) == SubSeq(list, 1, IF n < Len(list) THEN n ELSE Len(list))

(***************************************************************************)
(* Strings of robots.txt: a string is the sequence of its characters.      *)
(***************************************************************************)
\* char::to_lowercase on ASCII
LowerChar(c) ==
    CASE c = "A" -> "a"
      [] c = "B" -> "b"
      [] c = "C" -> "c"
      [] c = "D" -> "d"
      [] c = "E" -> "e"
      [] c = "F" -> "f"
      [] c = "G" -> "g"
      [] c = "H" -> "h"
      [] c = "I" -> "i"
      [] c = "J" -> "j"
      [] c = "K" -> "k"
      [] c = "L" -> "l"
      [] c = "M" -> "m"
      [] c = "N" -> "n"
      [] c = "O" -> "o"
      [] c = "P" -> "p"
      [] c = "Q" -> "q"
      [] c = "R" -> "r"
      [] c = "S" -> "s"
      [] c = "T" -> "t"
      [] c = "U" -> "u"
      [] c = "V" -> "v"
      [] c = "W" -> "w"
      [] c = "X" -> "x"
      [] c = "Y" -> "y"
      [] c = "Z" -> "z"
      [] OTHER -> c
\* str::to_lowercase
to_lowercase(str) == [i \in 1..Len(str) |-> LowerChar(str[i])]

IsWhitespace(c) == c \in {" ", "\t"}
RECURSIVE trim_start(_)
trim_start(str) ==
    IF str # <<>> /\ IsWhitespace(Head(str)) THEN trim_start(Tail(str)) ELSE str
RECURSIVE trim_end(_)
trim_end(str) ==
    IF str # <<>> /\ IsWhitespace(str[Len(str)])
      THEN trim_end(SubSeq(str, 1, Len(str) - 1)) ELSE str
\* str::trim
trim(str) == trim_end(trim_start(str))

\* str::find(c): the position of the first c, 0 for None
find(str, c) ==
    IF \E i \in 1..Len(str) : str[i] = c
      THEN CHOOSE i \in 1..Len(str) : str[i] = c /\ \A j \in 1..(i - 1) : str[j] # c
      ELSE 0

\* str::starts_with
starts_with(str, prefix) ==
    /\ Len(prefix) <= Len(str)
    /\ SubSeq(str, 1, Len(prefix)) = prefix

(***************************************************************************)
(* RobotsChecker (crawler/robots.rs).  rules is the HashMap from the       *)
(* lower-cased user agent to its Vec of disallowed prefixes; the content   *)
(* of a robots.txt is the sequence of its lines.                           *)
(***************************************************************************)
\* the names of user agents
GPTBot == <<"G", "P", "T", "B", "o", "t">>
ClaudeBot == <<"C", "l", "a", "u", "d", "e", "B", "o", "t">>
PerplexityBot == <<"P", "e", "r", "p", "l", "e", "x", "i", "t", "y", "B", "o", "t">>
GoogleOther == <<"G", "o", "o", "g", "l", "e", "O", "t", "h", "e", "r">>
SomeBot == <<"S", "o", "m", "e", "B", "o", "t">>
Wildcard == <<"*">>

\* "/": a path alone, which Url::parse rejects (relative URL without a base)
U_slash == Url("", "", <<"/">>, "")

\* const AI_BOT_USER_AGENTS
AI_BOT_USER_AGENTS == <<GPTBot, ClaudeBot, PerplexityBot, GoogleOther>>

NoRules == [agent \in {} |-> <<>>]

\* rules.entry(agent).or_default().push(value)
PushRule(rules, agent, value) ==
    IF agent \in DOMAIN rules
      THEN [rules EXCEPT ![agent] = Append(@, value)]
      ELSE [a \in DOMAIN rules \cup {agent} |->
              IF a = agent THEN <<value>> ELSE rules[a]]

RECURSIVE PushRuleAll(_, _, _)
\* for agent in &current_agents { ... push(value) }
PushRuleAll(rules, agents, value) ==
    IF agents = <<>> THEN rules
    ELSE PushRuleAll(PushRule(rules, Head(agents), value), Tail(agents), value)

\* the body of the loop of parse_robots_txt for one line
ParseLine(st, raw_line) ==
    LET trimmed == trim(raw_line)
        idx == find(trimmed, "#")
        line == IF idx # 0 THEN trim(SubSeq(trimmed, 1, idx - 1)) ELSE trimmed
        colon == find(line, ":")
    IN  IF line = <<>> THEN [st EXCEPT !.current_agents = <<>>]
        ELSE IF colon = 0 THEN st
        ELSE LET key == to_lowercase(trim(SubSeq(line, 1, colon - 1)))
                 value == trim(SubSeq(line, colon + 1, Len(line)))
             IN  IF key = <<"u", "s", "e", "r", "-", "a", "g", "e", "n", "t">>
                   THEN [st EXCEPT !.current_agents = Append(@, to_lowercase(value))]
                 ELSE IF key = <<"d", "i", "s", "a", "l", "l", "o", "w">>
                   THEN [st EXCEPT !.rules = PushRuleAll(@, st.current_agents, value)]
                 ELSE st

RECURSIVE ParseLines(_, _)
ParseLines(st, content) ==
    IF content = <<>> THEN st
    ELSE ParseLines(ParseLine(st, Head(content)), Tail(content))

\* parse_robots_txt(content)
parse_robots_txt(content) ==
    ParseLines([rules |-> NoRules, current_agents |-> <<>>],
               content).rules

RECURSIVE Blocks(_, _)
\* the inner loop of is_allowed: some non-empty pattern starts the path
Blocks(disallowed, path) ==
    IF disallowed = <<>> THEN FALSE
    ELSE IF Head(disallowed) = <<>> THEN Blocks(Tail(disallowed), path)
    ELSE IF starts_with(path, Head(disallowed)) THEN TRUE
    ELSE Blocks(Tail(disallowed), path)

\* an is_allowed that reads the wildcard group only for agents without a group
is_allowed_own_group_first(rules, url, user_agent) ==
    LET parsed == UrlParse(url)
        ua_lower == to_lowercase(user_agent)
    IN  IF parsed = None THEN TRUE
        ELSE IF ua_lower \in DOMAIN rules THEN ~Blocks(rules[ua_lower], parsed.path)
        ELSE ~(Wildcard \in DOMAIN rules /\ Blocks(rules[Wildcard], parsed.path))
\* RobotsChecker::is_allowed(url, user_agent)
is_allowed(rules, url, user_agent) ==
    LET parsed == UrlParse(url)
        ua_lower == to_lowercase(user_agent)
    IN  IF parsed = None THEN TRUE
        ELSE /\ ~(ua_lower \in DOMAIN rules /\ Blocks(rules[ua_lower], parsed.path))
             /\ ~(Wildcard \in DOMAIN rules /\ Blocks(rules[Wildcard], parsed.path))

\* RobotsChecker::blocked_bots(url)
blocked_bots(rules, url) ==
    SelectSeq(AI_BOT_USER_AGENTS, LAMBDA ua : ~is_allowed(rules, url, ua))

(***************************************************************************)
(* merge_links (crawler/mod.rs).  A RenderedLink is [url, anchor_text,     *)
(* rel]; rendered is an Option of a list of them.                          *)
(***************************************************************************)
RenderedLink(url, anchor_text, rel) ==
    [url |-> url, anchor_text |-> anchor_text, rel |-> rel]

\* is_navigable_url: the string does not start with one of the four prefixes
is_navigable_url(url) == url.scheme \notin {"javascript", "mailto", "tel", "data"}

\* Url::parse(page_url).ok().and_then(host_str): "" for None
HostOf(url) == LET u == UrlParse(url) IN IF u = None THEN "" ELSE u.host

\* the body of the loop of merge_links for one rendered link
MergeStep(st, link, page_host) ==
    LET parsed_url == UrlParse(link.url)
        is_internal == page_host # "" /\ parsed_url.host # "" /\ page_host = parsed_url.host
    IN  IF ~is_navigable_url(link.url) THEN st
        ELSE IF parsed_url = None THEN st
        ELSE IF parsed_url.scheme # "http" /\ parsed_url.scheme # "https" THEN st
        ELSE IF is_internal
          THEN IF link.url \notin st.internal_set
                 THEN [st EXCEPT !.internal_set = @ \cup {link.url},
                                 !.merged_internal = Append(@, link.url)]
                 ELSE st
          ELSE [st EXCEPT
                  !.external_set = @ \cup {link.url},
                  !.merged_external =
                     IF link.url \notin st.external_set THEN Append(@, link.url) ELSE @,
                  !.merged_external_details =
                     IF link.url \notin st.external_detail_urls
                       THEN Append(@, ExtractedLink(link.url, link.anchor_text, link.rel))
                       ELSE @]

RECURSIVE MergeLoop(_, _, _)
MergeLoop(st, rendered, page_host) ==
    IF rendered = <<>> THEN st
    ELSE MergeLoop(MergeStep(st, Head(rendered), page_host), Tail(rendered), page_host)

MergeResult(internal, external, details) ==
    [merged_internal |-> internal, merged_external |-> external,
     merged_external_details |-> details]

\* a merge_links whose sets of known urls start empty
merge_links_fresh_sets(static_internal, static_external, static_external_details, rendered, page_url) ==
    IF rendered = <<>> \/ rendered[1] = <<>>
      THEN MergeResult(static_internal, static_external, static_external_details)
      ELSE LET st == MergeLoop(
                       [internal_set |-> {},
                        external_set |-> {},
                        external_detail_urls |->
                          {static_external_details[i].url :
                             i \in 1..Len(static_external_details)},
                        merged_internal |-> static_internal,
                        merged_external |-> static_external,
                        merged_external_details |-> static_external_details],
                       rendered[1], HostOf(page_url))
           IN  MergeResult(st.merged_internal, st.merged_external,
                           st.merged_external_details)
\* merge_links(static_internal, static_external, static_external_details, rendered, page_url)
merge_links(static_internal, static_external, static_external_details, rendered, page_url) ==
    IF rendered = <<>> \/ rendered[1] = <<>>
      THEN MergeResult(static_internal, static_external, static_external_details)
      ELSE LET st == MergeLoop(
                       [internal_set |-> {static_internal[i] : i \in 1..Len(static_internal)},
                        external_set |-> {static_external[i] : i \in 1..Len(static_external)},
                        external_detail_urls |->
                          {static_external_details[i].url :
                             i \in 1..Len(static_external_details)},
                        merged_internal |-> static_internal,
                        merged_external |-> static_external,
                        merged_external_details |-> static_external_details],
                       rendered[1], HostOf(page_url))
           IN  MergeResult(st.merged_internal, st.merged_external,
                           st.merged_external_details)

(***************************************************************************)
(* State.                                                                  *)
(***************************************************************************)
VARIABLES
    frontier,        \* the Frontier object (of the job's runner in Spec)
    emitted,         \* history: the entries next() returned, in order
    inserted,        \* history: the entries pushed on the queue, in push order
    op,              \* history: the last Frontier call and its arguments
    config,          \* Config: max_concurrent_fetches, batch_page_threshold, batch_interval_secs
    crawl_config,    \* the payload's CrawlConfig
    jobs,            \* JobManager.jobs: job id -> Option<JobEntry>
    tx,              \* the mpsc channel of submitted payloads (their job ids)
    submit_pc,       \* where submit(payload) stands: "idle", "inserted", "returned"
    pc,              \* where run_crawl_job stands; "none" before it is spawned
    robots,          \* whether the engine holds a RobotsChecker
    join_set,        \* the JoinSet: the spawned page pipelines, each with its state
    pages_crawled, pages_errored, batch_pages, batch_index, last_batch_time,
    batch,           \* the CrawlResultBatch being sent
    now,             \* the clock, in seconds
    sent,            \* history: the batches handed to send_callback, in order
    backlinks,       \* history: the bodies of the backlinks POSTs, in order
    cancel_seen,     \* history: Len(sent) when the cancel branch was taken, -1 before
    post_failed,     \* history: whether some callback POST failed
    audits,          \* per job: its LighthouseRunner's semaphore and its audits
    http,            \* the last HTTP request the server answered, with its response
    call,            \* a call of a library function: its arguments and what it returned
    fetcher,         \* a RateLimitedFetcher: its limiters, the clock, the requests released
    site,            \* what run_crawl_job learned from robots.txt and the sitemaps
    manager,         \* a JobManager with its JobEntry objects and the runners it spawned
    page             \* one crawl_page pipeline: where it stands and what it holds

frontierVars == <<frontier, emitted, inserted, op>>
jobVars == <<config, crawl_config, jobs, tx, submit_pc, pc, robots, join_set,
             pages_crawled, pages_errored, batch_pages, batch_index, last_batch_time,
             batch, now, sent, backlinks, cancel_seen, post_failed>>
libVars == <<call, fetcher>>
moreVars == <<manager, page>>
extraVars == <<audits, http, libVars, site, moreVars>>
vars == <<frontierVars, jobVars, extraVars>>

\* no job has built a LighthouseRunner, no request has been answered
NoAudits == <<>>
NoHttp == <<>>
NoCall == <<>>
NoFetcher == <<>>
NoSite == <<>>
NoManager == <<>>
NoPage == <<>>
MoreIdle == manager = NoManager /\ page = NoPage
LibIdle == call = NoCall /\ fetcher = NoFetcher
ExtraIdle == audits = NoAudits /\ http = NoHttp /\ LibIdle /\ site = NoSite /\ MoreIdle

NoFrontier == [queue |-> <<>>, seen |-> {}, max_depth |-> 0, crawled |-> 0]
NoBatch == [job_id |-> "", batch_index |-> 0, is_final |-> FALSE, pages |-> <<>>,
            stats |-> CrawlStats(0, 0, 0)]

\* the runner's locals before run_crawl_job declares them
RunnerIdle ==
    /\ pc = "none"
    /\ robots = FALSE
    /\ join_set = <<>>
    /\ pages_crawled = 0 /\ pages_errored = 0
    /\ batch_pages = <<>> /\ batch_index = 0
    /\ last_batch_time = 0
    /\ batch = NoBatch
    /\ sent = <<>> /\ backlinks = <<>>
    /\ cancel_seen = -1
    /\ post_failed = FALSE

\* JobManager::new: empty map, empty channel
ManagerNew ==
    /\ jobs = [id \in JobIds |-> <<>>]
    /\ tx = <<>>
    /\ submit_pc = "idle"
    /\ now = 0

\* the entries a call pushed: the queue's new members, in the order of the call's urls
RECURSIVE Pushed(_, _, _)
Pushed(f, urls, depth) ==
    IF urls = <<>> THEN <<>>
    ELSE LET f1 == InsertOne(f, Head(urls), depth) IN
         (IF f1 = f THEN <<>> ELSE <<FrontierEntry(normalize_url(Head(urls)), depth)>>)
           \o Pushed(f1, Tail(urls), depth)

SeqsUpTo(S, n) == UNION {[1..k -> S] : k \in 0..n}

\* the url lists add_discovered is called with in SpecFrontier
AddLists ==
    {<<>>} \cup {<<u>> : u \in RawUrls}
      \cup {<<U_aFrag, U_a>>, <<U_root, U_bad, U_aSlashSlash>>}

\* the normalized urls of a call's list
NormalizedOf(urls) == {normalize_url(urls[i]) : i \in 1..Len(urls)} \ {None}

(***************************************************************************)
(* SpecFrontier: the Frontier under arbitrary calls.                       *)
(* op records the last call: its kind, whether its depth argument was      *)
(* beyond max_depth, whether one of its urls was not in the seen-set, and  *)
(* whether one of them had already been returned by next().                *)
(***************************************************************************)
InitFrontier ==
    \E seeds \in SeqsUpTo(RawUrls, MaxSeeds), D \in 0..MaxDepthBound :
        /\ frontier = FrontierNew(seeds, D)
        /\ emitted = <<>>
        /\ inserted = Pushed([queue |-> <<>>, seen |-> {}, max_depth |-> D, crawled |-> 0],
                             seeds, 0)
        /\ op = [kind |-> "new", beyond |-> FALSE, fresh |-> FALSE, popped |-> FALSE]
        /\ config = [max_concurrent_fetches |-> 0, batch_page_threshold |-> 0,
                     batch_interval_secs |-> 0]
        /\ crawl_config = [seed_urls |-> <<>>, max_pages |-> 0, max_depth |-> 0,
                           respect_robots |-> FALSE, extract_links |-> FALSE]
        /\ ManagerNew
        /\ RunnerIdle
        /\ ExtraIdle

CallNext ==
    /\ LET r == FrontierNext(frontier) IN
        /\ frontier' = r.f
        /\ emitted' = IF r.ret = NoEntry THEN emitted ELSE Append(emitted, r.ret)
    /\ op' = [kind |-> "next", beyond |-> FALSE, fresh |-> FALSE, popped |-> FALSE]
    /\ UNCHANGED <<inserted, jobVars>>
    /\ UNCHANGED extraVars

CallAddDiscovered ==
    /\ \E urls \in AddLists, depth \in 0..(MaxDepthBound + 1) :
        /\ frontier' = add_discovered(frontier, urls, depth)
        /\ inserted' = inserted \o
             (IF frontier' = frontier THEN <<>> ELSE Pushed(frontier, urls, depth))
        /\ op' = [kind |-> "add", beyond |-> depth > frontier.max_depth,
                  fresh |-> NormalizedOf(urls) \ frontier.seen # {},
                  popped |-> \E i \in 1..Len(emitted) : emitted[i].url \in NormalizedOf(urls)]
    /\ UNCHANGED <<emitted, jobVars>>
    /\ UNCHANGED extraVars

NextFrontier == CallNext \/ CallAddDiscovered

SpecFrontier == InitFrontier /\ [][NextFrontier]_vars

(***************************************************************************)
(* Spec: one job, from submit() to the end of run_crawl_job().             *)
(***************************************************************************)
entry == jobs[JobId][1]

Init ==
    /\ frontier = NoFrontier
    /\ emitted = <<>> /\ inserted = <<>>
    /\ op = [kind |-> "new", beyond |-> FALSE, fresh |-> FALSE, popped |-> FALSE]
    /\ config \in [max_concurrent_fetches : 1..MaxWorkersBound,
                   batch_page_threshold : BatchThresholds,
                   batch_interval_secs : {1}]
    /\ crawl_config \in [seed_urls : JobSeedLists, max_pages : 0..MaxPagesBound,
                         max_depth : {1}, respect_robots : BOOLEAN,
                         extract_links : BOOLEAN]
    /\ ManagerNew
    /\ RunnerIdle
    /\ ExtraIdle

\* the jobs map after submit() inserted the entry of a payload
JobsAfterSubmit(job_id) == [jobs EXCEPT ![job_id] = Some(NewJobEntry)]

\* a cancel() that creates a Cancelled entry for an identifier it does not know
JobsAfterCancelUpsert(job_id) ==
    [jobs EXCEPT ![job_id] =
       Some([status |-> "Cancelled", stats |-> <<>>, cancel_token |-> TRUE])]
\* the jobs map after cancel(job_id)
JobsAfterCancel(job_id) ==
    IF jobs[job_id] = <<>> THEN jobs
    ELSE [jobs EXCEPT ![job_id] =
            Some([@[1] EXCEPT !.cancel_token = TRUE, !.status = "Cancelled"])]

\* a submit() that enqueues the payload before it inserts the JobEntry
SubmitEnqueueFirst ==
    /\ submit_pc = "idle"
    /\ tx' = Append(tx, JobId)
    /\ submit_pc' = "inserted"
    /\ UNCHANGED <<frontierVars, config, crawl_config, jobs, pc, robots, join_set,
                   pages_crawled, pages_errored, batch_pages, batch_index,
                   last_batch_time, batch, now, sent, backlinks,
                   cancel_seen, post_failed>>
    /\ UNCHANGED extraVars

\* submit(), first half: the JobEntry is inserted into the map
SubmitInsert ==
    /\ submit_pc = "idle"
    /\ jobs' = JobsAfterSubmit(JobId)
    /\ submit_pc' = "inserted"
    /\ UNCHANGED <<frontierVars, config, crawl_config, tx, pc, robots, join_set,
                   pages_crawled, pages_errored, batch_pages, batch_index,
                   last_batch_time, batch, now, sent, backlinks,
                   cancel_seen, post_failed>>
    /\ UNCHANGED extraVars

\* submit(), second half: the payload is sent on the channel
SubmitSend ==
    /\ submit_pc = "inserted"
    /\ tx' = Append(tx, JobId)
    /\ submit_pc' = "returned"
    /\ UNCHANGED <<frontierVars, config, crawl_config, jobs, pc, robots, join_set,
                   pages_crawled, pages_errored, batch_pages, batch_index,
                   last_batch_time, batch, now, sent, backlinks,
                   cancel_seen, post_failed>>
    /\ UNCHANGED extraVars

\* cancel(job_id)
Cancel(job_id) ==
    /\ jobs' = JobsAfterCancel(job_id)
    /\ UNCHANGED <<frontierVars, config, crawl_config, tx, submit_pc, pc, robots,
                   join_set, pages_crawled, pages_errored, batch_pages, batch_index,
                   last_batch_time, batch, now, sent, backlinks,
                   cancel_seen, post_failed>>
    /\ UNCHANGED extraVars

\* status(job_id): the JobStatus returned (a read of the map and of the entry)
status(job_id) ==
    IF jobs[job_id] # <<>>
      THEN [job_id |-> job_id, status |-> jobs[job_id][1].status,
            stats |-> jobs[job_id][1].stats]
      ELSE [job_id |-> job_id, status |-> "Pending", stats |-> <<>>]

\* process_loop: one iteration, spawning run_crawl_job
ProcessLoop ==
    /\ tx # <<>>
    /\ tx' = Tail(tx)
    /\ pc' = IF jobs[Head(tx)] = <<>> THEN pc ELSE "start"
    /\ UNCHANGED <<frontierVars, config, crawl_config, jobs, submit_pc, robots, join_set,
                   pages_crawled, pages_errored, batch_pages, batch_index,
                   last_batch_time, batch, now, sent, backlinks,
                   cancel_seen, post_failed>>
    /\ UNCHANGED extraVars

\* run_crawl_job: clone the token, mark as crawling
RunnerMarkCrawling ==
    /\ pc = "start"
    /\ jobs' = [jobs EXCEPT ![JobId] = Some([@[1] EXCEPT !.status = "Crawling"])]
    /\ pc' = "bootstrap"
    /\ UNCHANGED <<frontierVars, config, crawl_config, tx, submit_pc, robots, join_set,
                   pages_crawled, pages_errored, batch_pages, batch_index,
                   last_batch_time, batch, now, sent, backlinks, cancel_seen,
                   post_failed>>
    /\ UNCHANGED extraVars

\* crawl_config.user_agent of the payloads tried
user_agent == SomeBot

\* the robots.txt contents a job's domain serves
RobotsGptOnly ==
    << <<"U", "s", "e", "r", "-", "a", "g", "e", "n", "t", ":", " ", "G", "P", "T", "B", "o", "t">>,
       <<"D", "i", "s", "a", "l", "l", "o", "w", ":", " ", "/">> >>
RobotsNoB ==
    << <<"U", "s", "e", "r", "-", "a", "g", "e", "n", "t", ":", " ", "*">>,
       <<"D", "i", "s", "a", "l", "l", "o", "w", ":", " ", "/", "b">> >>
JobRobotsContents == {RobotsGptOnly, RobotsNoB}

\* a sitemap merge that does not ask the robots checker
SitemapSeedUrlsUnfiltered(retained, rules, urls) == urls
\* sitemap_seed_urls: the sitemap's urls, filtered by the checker if one is retained
SitemapSeedUrls(retained, rules, urls) ==
    IF retained
      THEN SelectSeq(urls, LAMBDA u : is_allowed(rules, u, user_agent))
      ELSE urls

\* run_crawl_job: components, robots.txt, sitemaps, frontier, counters.
\* site records the SiteContext and the sitemap merge: whether RobotsChecker::new
\* returned Ok, the rules, ai_crawlers_blocked, the sitemap's urls, the urls
\* offered to the frontier and the entries the frontier pushed for them
RunnerBootstrap ==
    /\ pc = "bootstrap"
    /\ \E robots_ok \in BOOLEAN, content \in JobRobotsContents, sitemap \in SitemapLists :
        LET rules == IF robots_ok THEN parse_robots_txt(content) ELSE NoRules
            retained == robots_ok /\ crawl_config.respect_robots
            sitemap_result == IF robots_ok THEN sitemap ELSE <<>>
            sitemap_urls_from_robots == SitemapSeedUrls(retained, rules, sitemap_result)
            to_add == IF sitemap_urls_from_robots # <<>>
                        THEN Take(sitemap_urls_from_robots, crawl_config.max_pages)
                        ELSE <<>>
            f0 == FrontierNew(crawl_config.seed_urls, crawl_config.max_depth)
        IN  /\ robots' = retained
            /\ frontier' =
                 IF sitemap_urls_from_robots # <<>>
                   THEN add_discovered(f0, to_add, 0)
                   ELSE f0
            /\ site' = [fetched |-> robots_ok,
                        rules |-> rules,
                        ai_crawlers_blocked |->
                          IF robots_ok THEN blocked_bots(rules, U_slash) ELSE <<>>,
                        sitemap_urls |-> sitemap_result,
                        to_add |-> to_add,
                        pushed |-> Pushed(f0, to_add, 0)]
    /\ pages_crawled' = 0 /\ pages_errored' = 0
    /\ batch_pages' = <<>> /\ batch_index' = 0
    /\ last_batch_time' = now
    /\ join_set' = <<>>
    /\ pc' = "fill"
    /\ UNCHANGED <<emitted, inserted, op, config, crawl_config, jobs, tx, submit_pc,
                   batch, now, sent, backlinks, cancel_seen, post_failed>>
    /\ UNCHANGED <<audits, http, libVars, moreVars>>

\* the two conditions of the worker fill loop
WorkerSlotFreeOffByOne(js) == Len(js) <= config.max_concurrent_fetches
WorkerSlotFree(js) == Len(js) < config.max_concurrent_fetches
\* a budget test that lets one page too many through
PageBudgetLeftOffByOne(crawled, errored, js) == ~(crawled + Len(js) > crawl_config.max_pages)
PageBudgetLeft(crawled, errored, js) == ~(crawled + Len(js) >= crawl_config.max_pages)

RECURSIVE FillWorkers(_, _)
\* while join_set.len() < max_workers { ... }: [f, js] after the loop
FillWorkers(f, js) ==
    IF WorkerSlotFree(js) /\ PageBudgetLeft(pages_crawled, pages_errored, js)
      THEN LET r == FrontierNext(f) IN
           IF r.ret = NoEntry THEN [f |-> f, js |-> js]
           ELSE FillWorkers(r.f, Append(js, [url |-> r.ret.url, depth |-> r.ret.depth,
                                             state |-> "running", shape |-> <<>>]))
      ELSE [f |-> f, js |-> js]

\* top of the loop: fill the worker slots, leave the loop when nothing is live
RunnerFill ==
    /\ pc = "fill"
    /\ LET r == FillWorkers(frontier, join_set) IN
        /\ frontier' = r.f
        /\ join_set' = r.js
        /\ pc' = IF r.js = <<>> THEN "final" ELSE "select"
    /\ UNCHANGED <<emitted, inserted, op, config, crawl_config, jobs, tx, submit_pc,
                   robots, pages_crawled, pages_errored, batch_pages, batch_index,
                   last_batch_time, batch, now, sent, backlinks,
                   cancel_seen, post_failed>>
    /\ UNCHANGED extraVars

\* crawl_page's first test: a checker is held and it disallows the url
BlockedByRobots(url) == robots /\ ~is_allowed(site.rules, url, user_agent)

\* a spawned crawl_page task ends: BlockedByRobots if the checker refuses the url,
\* else Ok(page) or another error; or the task panics
PipelineSettle ==
    /\ \E i \in 1..Len(join_set) :
        /\ join_set[i].state = "running"
        /\ \/ /\ ~BlockedByRobots(join_set[i].url)
              /\ \E shape \in PageShapes :
                   join_set' = [join_set EXCEPT ![i].state = "ok", ![i].shape = Some(shape)]
           \/ /\ BlockedByRobots(join_set[i].url)
              /\ join_set' = [join_set EXCEPT ![i].state = "blocked"]
           \/ /\ ~BlockedByRobots(join_set[i].url)
              /\ join_set' = [join_set EXCEPT ![i].state = "error"]
           \/ join_set' = [join_set EXCEPT ![i].state = "panic"]
    /\ UNCHANGED <<frontierVars, config, crawl_config, jobs, tx, submit_pc, pc, robots,
                   pages_crawled, pages_errored, batch_pages, batch_index,
                   last_batch_time, batch, now, sent, backlinks,
                   cancel_seen, post_failed>>
    /\ UNCHANGED extraVars

\* the CrawlResultBatch values the runner builds
NonFinalBatchNoPages(index, pages, stats) ==
    [job_id |-> JobId, batch_index |-> index, is_final |-> FALSE, pages |-> <<>>,
     stats |-> stats]
NonFinalBatchMarkedFinal(index, pages, stats) ==
    [job_id |-> JobId, batch_index |-> index, is_final |-> TRUE, pages |-> pages,
     stats |-> stats]
NonFinalBatch(index, pages, stats) ==
    [job_id |-> JobId, batch_index |-> index, is_final |-> FALSE, pages |-> pages,
     stats |-> stats]
FinalBatch(index, pages, stats) ==
    [job_id |-> JobId, batch_index |-> index, is_final |-> TRUE, pages |-> pages,
     stats |-> stats]

\* batch_index += 1
NextBatchIndexSame(index) == index
NextBatchIndex(index) == index + 1

\* a cancel branch that returned from run_crawl_job instead of leaving the loop
RunnerSelectCancelReturn ==
    /\ pc = "select"
    /\ entry.cancel_token
    /\ join_set' = <<>>
    /\ cancel_seen' = Len(sent)
    /\ pc' = "done"
    /\ UNCHANGED <<frontierVars, config, crawl_config, jobs, tx, submit_pc, robots,
                   pages_crawled, pages_errored, batch_pages, batch_index,
                   last_batch_time, batch, now, sent, backlinks, post_failed>>
    /\ UNCHANGED extraVars

\* a cancel branch that forgot join_set.abort_all()
RunnerSelectCancelNoAbort ==
    /\ pc = "select"
    /\ entry.cancel_token
    /\ cancel_seen' = Len(sent)
    /\ pc' = "final"
    /\ UNCHANGED <<frontierVars, config, crawl_config, jobs, tx, submit_pc, robots,
                   join_set, pages_crawled, pages_errored, batch_pages, batch_index,
                   last_batch_time, batch, now, sent, backlinks, post_failed>>
    /\ UNCHANGED extraVars

\* select!, first branch: the token is cancelled; abort_all, break.
\* abort_all ends the tasks still running; a finished task keeps its output,
\* which is never joined
RunnerSelectCancel ==
    /\ pc = "select"
    /\ entry.cancel_token
    /\ join_set' = [i \in 1..Len(join_set) |->
                      IF join_set[i].state = "running"
                        THEN [join_set[i] EXCEPT !.state = "aborted"]
                        ELSE join_set[i]]
    /\ cancel_seen' = Len(sent)
    /\ pc' = "final"
    /\ UNCHANGED <<frontierVars, config, crawl_config, jobs, tx, submit_pc, robots,
                   pages_crawled, pages_errored, batch_pages, batch_index,
                   last_batch_time, batch, now, sent, backlinks, post_failed>>
    /\ UNCHANGED extraVars

\* the arms of the result match that do pages_errored += 1: Err(e) other than
\* BlockedByRobots, and a JoinError
CountsAsErrorAlsoBlocked(state) == state \in {"error", "panic", "blocked"}
\* a match without the JoinError arm's count
CountsAsErrorNotPanic(state) == state = "error"
CountsAsError(state) == state \in {"error", "panic"}

RemoveAt(seq, i) == SubSeq(seq, 1, i - 1) \o SubSeq(seq, i + 1, Len(seq))

\* a size test that flushes one page late
should_send_batch_above(pages) ==
    \/ Len(pages) > config.batch_page_threshold
    \/ now - last_batch_time >= config.batch_interval_secs

\* should_send_batch && !batch_pages.is_empty()
should_send_batch(pages) ==
    \/ Len(pages) >= config.batch_page_threshold
    \/ now - last_batch_time >= config.batch_interval_secs

\* a flush the interval alone decides
ShouldFlushAlsoEmpty(pages) == should_send_batch(pages)
\* if should_send_batch && !batch_pages.is_empty()
ShouldFlush(pages) == should_send_batch(pages) /\ pages # <<>>

\* select!, second branch: join_next() yields a finished task
RunnerJoinNext ==
    /\ pc = "select"
    /\ ~entry.cancel_token
    /\ \E i \in 1..Len(join_set) :
        LET t == join_set[i]
            ok == t.state = "ok"
            f1 == IF ok /\ crawl_config.extract_links
                    THEN add_discovered(frontier, t.shape[1].internal_links, t.depth + 1)
                    ELSE frontier
            bp == IF ok THEN Append(batch_pages, CrawlPageResult(t.url, t.shape[1]))
                  ELSE batch_pages
            crawled == IF ok THEN pages_crawled + 1 ELSE pages_crawled
            errored == IF CountsAsError(t.state)
                         THEN pages_errored + 1 ELSE pages_errored
            stats == CrawlStats(pending_count(f1) + crawled + errored, crawled, errored)
            flush == ShouldFlush(bp)
        IN  /\ t.state # "running"
            /\ join_set' = RemoveAt(join_set, i)
            /\ frontier' = f1
            /\ pages_crawled' = crawled
            /\ pages_errored' = errored
            /\ jobs' = [jobs EXCEPT ![JobId] = Some([@[1] EXCEPT !.stats = Some(stats)])]
            /\ batch' = IF flush
                          THEN NonFinalBatch(batch_index, bp, stats)
                          ELSE batch
            /\ batch_pages' = IF flush THEN <<>> ELSE bp
            /\ pc' = IF flush THEN "send_callback" ELSE "fill"
    /\ UNCHANGED <<emitted, inserted, op, config, crawl_config, tx, submit_pc, robots,
                   batch_index, last_batch_time, now, sent, backlinks,
                   cancel_seen, post_failed>>
    /\ UNCHANGED extraVars

\* a runner that gives the job up when a callback POST fails
RunnerSendCallbackFailStops ==
    /\ pc = "send_callback"
    /\ sent' = Append(sent, batch)
    /\ \E delivered \in BOOLEAN :
          /\ post_failed' = (post_failed \/ ~delivered)
          /\ pc' = IF delivered THEN "send_backlinks" ELSE "done"
    /\ UNCHANGED <<frontierVars, config, crawl_config, jobs, tx, submit_pc, robots,
                   join_set, pages_crawled, pages_errored, batch_pages, batch_index,
                   last_batch_time, batch, now, backlinks, cancel_seen>>
    /\ UNCHANGED extraVars

\* send_callback(batch): the batch is handed to the emitter; the POST may fail
RunnerSendCallback ==
    /\ pc = "send_callback"
    /\ sent' = Append(sent, batch)
    /\ \E delivered \in BOOLEAN : post_failed' = (post_failed \/ ~delivered)
    /\ pc' = "send_backlinks"
    /\ UNCHANGED <<frontierVars, config, crawl_config, jobs, tx, submit_pc, robots,
                   join_set, pages_crawled, pages_errored, batch_pages, batch_index,
                   last_batch_time, batch, now, backlinks, cancel_seen>>
    /\ UNCHANGED extraVars

\* a send_backlinks that posts the empty list too
PostBacklinksAlsoEmpty(pages) == Append(backlinks, collect_backlink_entries(pages))

\* send_backlinks(collect_backlink_entries(batch.pages)): POST unless the list is empty
PostBacklinks(pages) ==
    LET links == collect_backlink_entries(pages) IN
    IF links = <<>> THEN backlinks ELSE Append(backlinks, links)

\* after the non-final callback: backlinks, batch_index += 1, last_batch_time = now
RunnerSendBacklinks ==
    /\ pc = "send_backlinks"
    /\ backlinks' = PostBacklinks(batch.pages)
    /\ batch_index' = NextBatchIndex(batch_index)
    /\ last_batch_time' = now
    /\ pc' = "fill"
    /\ UNCHANGED <<frontierVars, config, crawl_config, jobs, tx, submit_pc, robots,
                   join_set, pages_crawled, pages_errored, batch_pages, batch,
                   now, sent, cancel_seen, post_failed>>
    /\ UNCHANGED extraVars

\* a runner that sends the final batch only when it holds pages
RunnerFinalCallbackSkipEmpty ==
    /\ pc = "final"
    /\ LET final_stats == CrawlStats(pending_count(frontier) + pages_crawled + pages_errored,
                                     pages_crawled, pages_errored)
           final_batch == FinalBatch(batch_index, batch_pages, final_stats)
       IN  /\ batch' = final_batch
           /\ sent' = IF batch_pages = <<>> THEN sent ELSE Append(sent, final_batch)
           /\ \E delivered \in BOOLEAN : post_failed' = (post_failed \/ ~delivered)
    /\ pc' = "final_backlinks"
    /\ UNCHANGED <<frontierVars, config, crawl_config, jobs, tx, submit_pc, robots,
                   join_set, pages_crawled, pages_errored, batch_pages, batch_index,
                   last_batch_time, now, backlinks, cancel_seen>>
    /\ UNCHANGED extraVars

\* after the loop: final_stats, the final batch (batch_pages is moved into it,
\* the accumulator is not used again), send_callback
RunnerFinalCallback ==
    /\ pc = "final"
    /\ LET final_stats == CrawlStats(pending_count(frontier) + pages_crawled + pages_errored,
                                     pages_crawled, pages_errored)
           final_batch == FinalBatch(batch_index, batch_pages, final_stats)
       IN  /\ batch' = final_batch
           /\ sent' = Append(sent, final_batch)
           /\ \E delivered \in BOOLEAN : post_failed' = (post_failed \/ ~delivered)
    /\ pc' = "final_backlinks"
    /\ UNCHANGED <<frontierVars, config, crawl_config, jobs, tx, submit_pc, robots,
                   join_set, pages_crawled, pages_errored, batch_pages, batch_index,
                   last_batch_time, now, backlinks, cancel_seen>>
    /\ UNCHANGED extraVars

\* the final batch's backlinks
RunnerFinalBacklinks ==
    /\ pc = "final_backlinks"
    /\ backlinks' = PostBacklinks(batch.pages)
    /\ pc' = "finish"
    /\ UNCHANGED <<frontierVars, config, crawl_config, jobs, tx, submit_pc, robots,
                   join_set, pages_crawled, pages_errored, batch_pages, batch_index,
                   last_batch_time, batch, now, sent, cancel_seen,
                   post_failed>>
    /\ UNCHANGED extraVars

\* update final status; the function returns and its JoinSet is dropped
RunnerFinish ==
    /\ pc = "finish"
    /\ jobs' = [jobs EXCEPT ![JobId] =
                 Some([@[1] EXCEPT !.status = IF @ # "Cancelled" THEN "Complete" ELSE @,
                                   !.stats = Some(batch.stats)])]
    /\ join_set' = <<>>
    /\ pc' = "done"
    /\ UNCHANGED <<frontierVars, config, crawl_config, tx, submit_pc, robots,
                   pages_crawled, pages_errored, batch_pages, batch_index,
                   last_batch_time, batch, now, sent, backlinks, cancel_seen,
                   post_failed>>
    /\ UNCHANGED extraVars

\* a second passes
Tick ==
    /\ now < MaxTime
    /\ now' = now + 1
    /\ UNCHANGED <<frontierVars, config, crawl_config, jobs, tx, submit_pc, pc, robots,
                   join_set, pages_crawled, pages_errored, batch_pages, batch_index,
                   last_batch_time, batch, sent, backlinks, cancel_seen,
                   post_failed>>
    /\ UNCHANGED extraVars

CancelAny == \E job_id \in JobIds : Cancel(job_id)

Next ==
    \/ SubmitInsert
    \/ SubmitSend
    \/ CancelAny
    \/ ProcessLoop
    \/ RunnerMarkCrawling
    \/ RunnerBootstrap
    \/ RunnerFill
    \/ PipelineSettle
    \/ RunnerSelectCancel
    \/ RunnerJoinNext
    \/ RunnerSendCallback
    \/ RunnerSendBacklinks
    \/ RunnerFinalCallback
    \/ RunnerFinalBacklinks
    \/ RunnerFinish
    \/ Tick

Spec == Init /\ [][Next]_vars

\* the steps of the spawned run_crawl_job task
RunnerStep ==
    \/ RunnerMarkCrawling \/ RunnerBootstrap \/ RunnerFill
    \/ RunnerSelectCancel \/ RunnerJoinNext
    \/ RunnerSendCallback \/ RunnerSendBacklinks
    \/ RunnerFinalCallback \/ RunnerFinalBacklinks \/ RunnerFinish

\* the tokio scheduler runs every task that can run: the caller of submit(), the
\* dispatcher, the runner; and every page pipeline settles
Fairness ==
    /\ WF_vars(SubmitSend)
    /\ WF_vars(ProcessLoop)
    /\ WF_vars(RunnerStep)
    /\ WF_vars(PipelineSettle)

SpecLive == Init /\ [][Next]_vars /\ Fairness

(***************************************************************************)
(* SpecBatch: one job of five seed urls with max_pages = 5 and             *)
(* batch_page_threshold = 3, whose batch interval is longer than the clock *)
(* runs, so that only the size threshold asks for a flush.                 *)
(***************************************************************************)
BatchSeeds == <<U_root, U_a, U_b, U_c, U_aSlashSlash>>

InitBatch ==
    /\ frontier = NoFrontier
    /\ emitted = <<>> /\ inserted = <<>>
    /\ op = [kind |-> "new", beyond |-> FALSE, fresh |-> FALSE, popped |-> FALSE]
    /\ config \in [max_concurrent_fetches : {MaxWorkersBound},
                   batch_page_threshold : {3},
                   batch_interval_secs : {MaxTime + 1}]
    /\ crawl_config \in [seed_urls : {BatchSeeds}, max_pages : {Len(BatchSeeds)},
                         max_depth : {1}, respect_robots : {FALSE},
                         extract_links : {FALSE}]
    /\ ManagerNew
    /\ RunnerIdle
    /\ ExtraIdle

SpecBatch == InitBatch /\ [][Next]_vars

(***************************************************************************)
(* SpecAudit: the Lighthouse audits of the jobs the dispatcher has spawned.*)
(* process_loop spawns run_crawl_job for every payload without waiting for *)
(* the one before, so the jobs of JobIds run at the same time.  Each       *)
(* run_crawl_job builds its own LighthouseRunner when run_lighthouse is    *)
(* set; the page pipelines of the job call run_lighthouse on it.           *)
(* audits[j] = [started, runner, waiting, holding]: runner is the          *)
(* Option<LighthouseRunner> (its semaphore's free permits), waiting the    *)
(* pipelines inside semaphore.acquire(), holding those past it.            *)
(***************************************************************************)
\* largest max_concurrent_lighthouse tried
MaxAuditsBound == 2

\* LighthouseRunner::new(max_concurrent, api_url)
LighthouseRunnerNew(max_concurrent) == [semaphore |-> max_concurrent]

JobNotStarted == [started |-> FALSE, runner |-> <<>>, waiting |-> 0, holding |-> 0]

InitAudit ==
    /\ frontier = NoFrontier
    /\ emitted = <<>> /\ inserted = <<>>
    /\ op = [kind |-> "new", beyond |-> FALSE, fresh |-> FALSE, popped |-> FALSE]
    /\ config \in [max_concurrent_fetches : 1..MaxWorkersBound,
                   max_concurrent_lighthouse : 1..MaxAuditsBound,
                   batch_page_threshold : {1},
                   batch_interval_secs : {1}]
    /\ crawl_config = [seed_urls |-> <<>>, max_pages |-> 0, max_depth |-> 0,
                       respect_robots |-> FALSE, extract_links |-> FALSE]
    /\ ManagerNew
    /\ RunnerIdle
    /\ audits = [j \in JobIds |-> JobNotStarted]
    /\ http = NoHttp /\ LibIdle /\ site = NoSite /\ MoreIdle

\* run_crawl_job of job j sets up its components
AuditJobStart(j) ==
    /\ ~audits[j].started
    /\ \E run_lighthouse \in BOOLEAN :
         audits' = [audits EXCEPT ![j] =
             [started |-> TRUE,
              runner |-> IF run_lighthouse
                           THEN Some(LighthouseRunnerNew(config.max_concurrent_lighthouse))
                           ELSE <<>>,
              waiting |-> 0, holding |-> 0]]
    /\ UNCHANGED <<frontierVars, jobVars, http, libVars, site, moreVars>>

\* a page pipeline of job j reaches lighthouse_fut and calls run_lighthouse;
\* the job has at most max_concurrent_fetches pipelines
AuditRequest(j) ==
    /\ audits[j].started /\ audits[j].runner # <<>>
    /\ audits[j].waiting + audits[j].holding < config.max_concurrent_fetches
    /\ audits' = [audits EXCEPT ![j].waiting = @ + 1]
    /\ UNCHANGED <<frontierVars, jobVars, http, libVars, site, moreVars>>

\* self.semaphore.acquire().await returns a permit
AuditAcquire(j) ==
    /\ audits[j].waiting > 0
    /\ audits[j].runner[1].semaphore > 0
    /\ audits' = [audits EXCEPT ![j].runner = Some([semaphore |-> @[1].semaphore - 1]),
                                 ![j].waiting = @ - 1,
                                 ![j].holding = @ + 1]
    /\ UNCHANGED <<frontierVars, jobVars, http, libVars, site, moreVars>>

\* run_lighthouse returns (or its task is aborted): _permit is dropped
AuditRelease(j) ==
    /\ audits[j].holding > 0
    /\ audits' = [audits EXCEPT ![j].runner = Some([semaphore |-> @[1].semaphore + 1]),
                                 ![j].holding = @ - 1]
    /\ UNCHANGED <<frontierVars, jobVars, http, libVars, site, moreVars>>

NextAudit ==
    \E j \in JobIds :
        AuditJobStart(j) \/ AuditRequest(j) \/ AuditAcquire(j) \/ AuditRelease(j)

SpecAudit == InitAudit /\ [][NextAudit]_vars

(***************************************************************************)
(* SpecServer: the authenticated routes of build_app.  Every request to    *)
(* /api/v1/jobs, /api/v1/jobs/:id/status and /api/v1/jobs/:id/cancel runs  *)
(* through verify_hmac and, when that passes it on, through its handler,   *)
(* which calls the JobManager.  http holds the last request answered with  *)
(* the response: Some([req, code, reply]).                                 *)
(* A header is [kind, text]: missing, opaque (not visible ASCII, to_str    *)
(* fails) or text.  Strings are sequences of characters.  HMAC-SHA256 is   *)
(* taken to be collision-free: the tag of (key, message) is the pair.      *)
(***************************************************************************)
\* const MAX_TIMESTAMP_DRIFT_SECS
MAX_TIMESTAMP_DRIFT_SECS == 300
\* most payloads waiting in the channel (its capacity is 64; send waits when full)
MaxQueued == 1

\* SystemTime::now() in seconds since the epoch, as tried
ServerTimes == {1000}
\* config.shared_secret, and a key that is not it
Secret == "secret"
OtherKey == "other"

DigitChars == {"0", "1", "2", "3", "4", "5", "6", "7", "8", "9"}
DigitVal(c) ==
    CASE c = "0" -> 0 [] c = "1" -> 1 [] c = "2" -> 2 [] c = "3" -> 3 [] c = "4" -> 4
      [] c = "5" -> 5 [] c = "6" -> 6 [] c = "7" -> 7 [] c = "8" -> 8 [] c = "9" -> 9

RECURSIVE ParseDigits(_, _)
ParseDigits(str, acc) ==
    IF str = <<>> THEN acc
    ELSE ParseDigits(Tail(str), 10 * acc + DigitVal(Head(str)))

\* timestamp_str.parse::<u64>(): the value, or -1 for Err (an optional '+', then
\* one or more decimal digits; the strings tried are far below u64::MAX)
ParseU64(str) ==
    LET digits == IF str # <<>> /\ Head(str) = "+" THEN Tail(str) ELSE str IN
    IF digits = <<>> \/ \E i \in 1..Len(digits) : digits[i] \notin DigitChars
      THEN -1
      ELSE ParseDigits(digits, 0)

\* now.saturating_sub(timestamp): a drift that sees only timestamps in the past
SaturatingDiff(a, b) == IF a >= b THEN a - b ELSE 0
\* now.abs_diff(timestamp)
abs_diff(a, b) == IF a >= b THEN a - b ELSE b - a

\* hex::encode(mac.finalize()) of HMAC-SHA256 under key over msg
Hmac(key, msg) == [key |-> key, msg |-> msg]

Header(kind, text) == [kind |-> kind, text |-> text]
MissingHeader(text) == Header("missing", text)
OpaqueHeader(text) == Header("opaque", text)

\* an X-Signature text: the hex tag a signer computed under key over
\* signed_ts followed by signed_body, with or without the "hmac-sha256=" prefix
SignatureText(prefix, key, signed_ts, signed_body) ==
    [prefix |-> prefix, hex |-> Hmac(key, signed_ts \o signed_body),
     signed_ts |-> signed_ts, signed_body |-> signed_body]
\* an X-Signature text that is no tag at all
GarbageSignature ==
    [prefix |-> FALSE, hex |-> [key |-> "", msg |-> <<>>], signed_ts |-> <<>>,
     signed_body |-> <<>>]

\* signature.strip_prefix("hmac-sha256=").unwrap_or(&signature)
strip_prefix(signature) == signature.hex

\* request bodies: the bytes, and whether they exceed the 10 MiB read limit
Body(oversize, bytes) == [oversize |-> oversize, bytes |-> bytes]
\* the JSON of a CrawlJobPayload with job_id = JobId
JobBody == <<"{", "j", "1", "}">>
Bodies == {Body(FALSE, <<"0">>), Body(FALSE, JobBody), Body(TRUE, <<"0">>)}

\* X-Timestamp texts: server time -301, -300, +300, +301, a prefix of one of
\* them, and a text that is no number
TimestampTexts ==
    {<<"6", "9", "9">>, <<"7", "0", "0">>, <<"1", "3", "0", "0">>,
     <<"1", "3", "0", "1">>, <<"1", "3", "0">>, <<"x">>}
TimestampHeaders == {MissingHeader(<<>>)} \cup {Header("text", t) : t \in TimestampTexts}

\* what clients signed with the secret before a request was altered on the way
SignedBefore == { <<<<"1", "3", "0", "0">>, <<>>>> }

\* the X-Signature headers tried for a request carrying timestamp text ts and body
SignatureHeaders(ts, body) ==
    {MissingHeader(GarbageSignature), OpaqueHeader(GarbageSignature),
     Header("text", GarbageSignature)}
      \cup {Header("text", SignatureText(prefix, Secret, ts, body.bytes)) :
               prefix \in BOOLEAN}
      \cup {Header("text", SignatureText(FALSE, OtherKey, ts, body.bytes))}
      \cup {Header("text", SignatureText(FALSE, Secret, p[1], p[2])) : p \in SignedBefore}

Endpoints == {"create_job", "get_job_status", "cancel_job"}

\* the requests tried; :id is a path parameter of the status and cancel routes
RequestsTo(e, ids) ==
    UNION { UNION { { [endpoint |-> e, job_id |-> id, timestamp |-> th, body |-> b,
                       signature |-> sh] :
                        sh \in SignatureHeaders(th.text, b), id \in ids }
                    : b \in Bodies }
            : th \in TimestampHeaders }
Requests ==
    RequestsTo("create_job", {""}) \cup RequestsTo("get_job_status", JobIds)
      \cup RequestsTo("cancel_job", JobIds)

Response(code, reply) == [code |-> code, reply |-> [error |-> reply]]
\* next.run(request)
Passed == Response(0, "")

\* a comparison that sees who signed but not what was signed
SignatureKeyMismatch(expected, provided_hex) == expected.key # provided_hex.key
\* expected != provided_hex
SignatureMismatch(expected, provided_hex) == expected # provided_hex

\* verify_hmac: the response it returns itself, or Passed
verify_hmac(request) ==
    LET signature == request.signature
        timestamp_str == request.timestamp
    IN  IF signature.kind = "opaque" THEN Response(401, "Invalid X-Signature header")
        ELSE IF signature.kind = "missing"
          THEN Response(401, "Missing X-Signature header")
        ELSE IF timestamp_str.kind = "opaque"
          THEN Response(401, "Invalid X-Timestamp header")
        ELSE IF timestamp_str.kind = "missing"
          THEN Response(401, "Missing X-Timestamp header")
        ELSE LET timestamp == ParseU64(timestamp_str.text) IN
          IF timestamp = -1 THEN Response(401, "Invalid timestamp format")
          ELSE IF abs_diff(now, timestamp) > MAX_TIMESTAMP_DRIFT_SECS
            THEN Response(401, "Timestamp too far from current time")
          ELSE IF request.body.oversize
            THEN Response(400, "Failed to read request body")
          ELSE LET expected == Hmac(config.shared_secret,
                                    timestamp_str.text \o request.body.bytes)
                   provided_hex == strip_prefix(signature.text)
               IN  IF SignatureMismatch(expected, provided_hex)
                     THEN Response(401, "HMAC signature verification failed")
                     ELSE Passed

\* what the server steps leave alone
serverFrame == <<frontierVars, config, crawl_config, submit_pc, pc, robots, join_set,
                 pages_crawled, pages_errored, batch_pages, batch_index,
                 last_batch_time, batch, now, sent, backlinks, cancel_seen,
                 post_failed, audits, libVars, site, moreVars>>

InitServer ==
    /\ frontier = NoFrontier
    /\ emitted = <<>> /\ inserted = <<>>
    /\ op = [kind |-> "new", beyond |-> FALSE, fresh |-> FALSE, popped |-> FALSE]
    /\ config = [shared_secret |-> Secret, max_concurrent_fetches |-> 1,
                 batch_page_threshold |-> 1, batch_interval_secs |-> 1]
    /\ crawl_config = [seed_urls |-> <<>>, max_pages |-> 0, max_depth |-> 0,
                       respect_robots |-> FALSE, extract_links |-> FALSE]
    /\ jobs = [id \in JobIds |-> <<>>]
    /\ tx = <<>>
    /\ submit_pc = "idle"
    /\ now \in ServerTimes
    /\ RunnerIdle
    /\ ExtraIdle

\* the middleware answers the request itself
VerifyHmacRejects ==
    \E request \in Requests :
        LET response == verify_hmac(request) IN
        /\ response # Passed
        /\ http' = Some([req |-> request, code |-> response.code,
                         reply |-> response.reply])
        /\ UNCHANGED <<jobs, tx, serverFrame>>

\* POST /api/v1/jobs: the Json extractor, then job_manager.submit(payload)
CreateJob ==
    \E request \in Requests :
        /\ request.endpoint = "create_job"
        /\ verify_hmac(request) = Passed
        /\ IF request.body.bytes = JobBody
             THEN /\ Len(tx) < MaxQueued
                  /\ jobs' = JobsAfterSubmit(JobId)
                  /\ tx' = Append(tx, JobId)
                  /\ http' = Some([req |-> request, code |-> 202,
                                   reply |-> [job_id |-> JobId, status |-> "queued"]])
             ELSE /\ http' = Some([req |-> request, code |-> 422,
                                   reply |-> [error |-> "JsonRejection"]])
                  /\ UNCHANGED <<jobs, tx>>
        /\ UNCHANGED serverFrame

\* GET /api/v1/jobs/:id/status
GetJobStatus ==
    \E request \in Requests :
        /\ request.endpoint = "get_job_status"
        /\ verify_hmac(request) = Passed
        /\ http' = Some([req |-> request, code |-> 200, reply |-> status(request.job_id)])
        /\ UNCHANGED <<jobs, tx, serverFrame>>

\* POST /api/v1/jobs/:id/cancel
CancelJob ==
    \E request \in Requests :
        /\ request.endpoint = "cancel_job"
        /\ verify_hmac(request) = Passed
        /\ jobs' = JobsAfterCancel(request.job_id)
        /\ http' = Some([req |-> request, code |-> 200,
                         reply |-> [job_id |-> request.job_id, status |-> "cancelled"]])
        /\ UNCHANGED <<tx, serverFrame>>

NextServer == VerifyHmacRejects \/ CreateJob \/ GetJobStatus \/ CancelJob

SpecServer == InitServer /\ [][NextServer]_vars

(***************************************************************************)
(* SpecLib: calls of the library functions of the crawler.  call holds one *)
(* call: the function, its arguments and, once it has returned, Some(ret). *)
(***************************************************************************)
\* "https://e.com/public"
U_public == Url("https", "e.com", <<"/", "p", "u", "b", "l", "i", "c">>, "")
\* "https://e.com/admin/x"
U_adminx == Url("https", "e.com", <<"/", "a", "d", "m", "i", "n", "/", "x">>, "")
\* "https://e.com/search"
U_search == Url("https", "e.com", <<"/", "s", "e", "a", "r", "c", "h">>, "")
\* two groups on consecutive lines
RobotsAdjacentGroups ==
    << <<"U", "s", "e", "r", "-", "a", "g", "e", "n", "t", ":", " ", "*">>,
       <<"D", "i", "s", "a", "l", "l", "o", "w", ":", " ", "/", "a", "d", "m", "i", "n", "/">>,
       <<"U", "s", "e", "r", "-", "a", "g", "e", "n", "t", ":", " ", "G", "P", "T", "B", "o", "t">>,
       <<"D", "i", "s", "a", "l", "l", "o", "w", ":", " ", "/">> >>
\* the same groups with a blank line between them
RobotsSeparateGroups ==
    << <<"U", "s", "e", "r", "-", "a", "g", "e", "n", "t", ":", " ", "*">>,
       <<"D", "i", "s", "a", "l", "l", "o", "w", ":", " ", "/", "a", "d", "m", "i", "n", "/">>,
       <<>>,
       <<"U", "s", "e", "r", "-", "a", "g", "e", "n", "t", ":", " ", "G", "P", "T", "B", "o", "t">>,
       <<"D", "i", "s", "a", "l", "l", "o", "w", ":", " ", "/">> >>
\* a bot with a group of its own beside the wildcard group
RobotsGoogleOther ==
    << <<"U", "s", "e", "r", "-", "a", "g", "e", "n", "t", ":", " ", "*">>,
       <<"D", "i", "s", "a", "l", "l", "o", "w", ":", " ", "/", "a", "d", "m", "i", "n", "/">>,
       <<>>,
       <<"U", "s", "e", "r", "-", "a", "g", "e", "n", "t", ":", " ", "G", "o", "o", "g", "l", "e", "O", "t", "h", "e", "r">>,
       <<"D", "i", "s", "a", "l", "l", "o", "w", ":", " ", "/", "s", "e", "a", "r", "c", "h">> >>
\* an empty Disallow
RobotsAllowAll ==
    << <<"U", "s", "e", "r", "-", "a", "g", "e", "n", "t", ":", " ", "*">>,
       <<"D", "i", "s", "a", "l", "l", "o", "w", ":">> >>
\* mixed case, padding, a comment, a line without a colon
RobotsUntidy ==
    << <<" ", " ", "u", "s", "e", "r", "-", "A", "G", "E", "N", "T", " ", ":", " ", "C", "l", "a", "u", "d", "e", "B", "o", "t", " ", "#", " ", "a", "i">>,
       <<"D", "i", "s", "a", "l", "l", "o", "w", ":", " ", "/", " ", " ", " ">>,
       <<"A", "l", "l", "o", "w", ":", " ", "/", "p", "u", "b", "l", "i", "c">>,
       <<"n", "o", "i", "s", "e">> >>
RobotsEmpty == <<>>

RobotsContents ==
    {RobotsEmpty, RobotsAdjacentGroups, RobotsSeparateGroups, RobotsGoogleOther,
     RobotsAllowAll, RobotsUntidy}
RobotsUrls == {U_root, U_public, U_adminx, U_search, U_aFrag, U_slash}
UserAgents == {SomeBot, GPTBot, ClaudeBot, PerplexityBot, GoogleOther, Wildcard}

\* no job was submitted: the frontier, the manager and the runner are idle
InitJobsIdle ==
    /\ frontier = NoFrontier
    /\ emitted = <<>> /\ inserted = <<>>
    /\ op = [kind |-> "new", beyond |-> FALSE, fresh |-> FALSE, popped |-> FALSE]
    /\ config = [max_concurrent_fetches |-> 0, batch_page_threshold |-> 0,
                 batch_interval_secs |-> 0]
    /\ crawl_config = [seed_urls |-> <<>>, max_pages |-> 0, max_depth |-> 0,
                       respect_robots |-> FALSE, extract_links |-> FALSE]
    /\ ManagerNew
    /\ RunnerIdle

InitLibIdle == InitJobsIdle /\ audits = NoAudits /\ http = NoHttp /\ site = NoSite

\* the calls of is_allowed tried
IsAllowedCalls(c) ==
    \E content \in RobotsContents, url \in RobotsUrls, ua \in UserAgents :
        c = [fn |-> "is_allowed", content |-> content, url |-> url,
             user_agent |-> ua, ret |-> <<>>]
\* the calls of blocked_bots tried
BlockedBotsCalls(c) ==
    \E content \in RobotsContents, url \in RobotsUrls :
        c = [fn |-> "blocked_bots", content |-> content, url |-> url, ret |-> <<>>]

\* RobotsChecker::from_content(content).is_allowed(url, user_agent)
CallIsAllowed ==
    /\ call # NoCall /\ call.fn = "is_allowed" /\ call.ret = <<>>
    /\ call' = [call EXCEPT !.ret =
                  Some(is_allowed(parse_robots_txt(call.content), call.url,
                                  call.user_agent))]
    /\ UNCHANGED <<frontierVars, jobVars, audits, http, fetcher, site, moreVars>>

\* RobotsChecker::from_content(content).blocked_bots(url)
CallBlockedBots ==
    /\ call # NoCall /\ call.fn = "blocked_bots" /\ call.ret = <<>>
    /\ call' = [call EXCEPT !.ret =
                  Some(blocked_bots(parse_robots_txt(call.content), call.url))]
    /\ UNCHANGED <<frontierVars, jobVars, audits, http, fetcher, site, moreVars>>

\* "https://E.com/p/#x"
U_pFrag == Url("https", "E.com", <<"/", "p", "/">>, "x")
\* "https://e.com/p"
U_p == Url("https", "e.com", <<"/", "p">>, "")
\* "https://x.org/y"
U_ext2 == Url("https", "x.org", <<"/", "y">>, "")
\* "mailto:x@y"
U_mailto == Url("mailto", "", <<"x", "@", "y">>, "")
\* "javascript:void(0)"
U_js == Url("javascript", "", <<"v", "o", "i", "d", "(", "0", ")">>, "")
\* "JavaScript:void(0)"
U_jsUpper == Url("JavaScript", "", <<"v", "o", "i", "d", "(", "0", ")">>, "")
\* "tel:1"
U_tel == Url("tel", "", <<"1">>, "")
\* "data:,x"
U_data == Url("data", "", <<",", "x">>, "")
\* "ftp://e.com/f"
U_ftp == Url("ftp", "e.com", <<"/", "f">>, "")

\* the urls normalize_url is called with
NormalizeUrls == RawUrls \cup {U_pFrag, U_p, U_b, U_ext, U_mailto}

\* the calls of normalize_url tried
NormalizeCalls(c) ==
    \E url \in NormalizeUrls : c = [fn |-> "normalize_url", url |-> url, ret |-> <<>>]

\* normalize_url(raw), and normalize_url of what it returned
CallNormalizeUrl ==
    /\ call # NoCall /\ call.fn = "normalize_url" /\ call.ret = <<>>
    /\ LET once == normalize_url(call.url) IN
         call' = [call EXCEPT !.ret =
                    Some([once |-> once,
                          twice |-> IF once = None THEN None ELSE normalize_url(once)])]
    /\ UNCHANGED <<frontierVars, jobVars, audits, http, fetcher, site, moreVars>>

Rendered(urls) == [i \in 1..Len(urls) |-> RenderedLink(urls[i], "r", "")]

\* the arguments merge_links is called with
StaticInternalLists == {<<>>, <<U_a>>, <<U_a, U_a>>, <<U_b, U_a>>}
StaticExternalLists == {<<>>, <<U_ext>>}
RenderedLists ==
    {<<>>,
     Some(<<>>),
     Some(Rendered(<<U_a>>)),
     Some(Rendered(<<U_a, U_b, U_mailto, U_js>>)),
     Some(Rendered(<<U_b, U_b, U_aFrag>>)),
     Some(Rendered(<<U_ext, U_a, U_ext2, U_ext2>>)),
     Some(Rendered(<<U_jsUpper, U_ftp, U_bad, U_tel, U_data, U_c>>))}
\* page_url is the final url of a fetch that succeeded
PageUrls == {U_root}

\* the calls of merge_links tried
MergeLinksCalls(c) ==
    \E static_internal \in StaticInternalLists, static_external \in StaticExternalLists,
       with_details \in BOOLEAN, rendered \in RenderedLists, page_url \in PageUrls :
        c = [fn |-> "merge_links",
             static_internal |-> static_internal,
             static_external |-> static_external,
             static_external_details |->
               IF with_details
                 THEN [i \in 1..Len(static_external) |->
                         ExtractedLink(static_external[i], "s", "nofollow")]
                 ELSE <<>>,
             rendered |-> rendered,
             page_url |-> page_url,
             ret |-> <<>>]

CallMergeLinks ==
    /\ call # NoCall /\ call.fn = "merge_links" /\ call.ret = <<>>
    /\ call' = [call EXCEPT !.ret =
                  Some(merge_links(call.static_internal, call.static_external,
                                   call.static_external_details, call.rendered,
                                   call.page_url))]
    /\ UNCHANGED <<frontierVars, jobVars, audits, http, fetcher, site, moreVars>>

InitLib ==
    /\ InitLibIdle /\ MoreIdle
    /\ fetcher = NoFetcher
    /\ \/ IsAllowedCalls(call)
       \/ BlockedBotsCalls(call)
       \/ NormalizeCalls(call)
       \/ MergeLinksCalls(call)

NextLib == CallIsAllowed \/ CallBlockedBots \/ CallNormalizeUrl \/ CallMergeLinks

SpecLib == InitLib /\ [][NextLib]_vars

(***************************************************************************)
(* SpecFetch: the RateLimitedFetcher of one job.  fetcher holds the job's  *)
(* rate_limit_ms, the fetcher's rate_per_second, domain_limiters (domain   *)
(* -> the limiter's theoretical arrival time), the clock in milliseconds   *)
(* and the history of the requests released, each with its domain and the  *)
(* time until_ready returned.  The limiter is governor's GCRA for          *)
(* Quota::per_second(n): one cell every 1 s / n, burst n.                  *)
(***************************************************************************)
\* the clock advances in steps of TickMs up to MaxFetchTicks steps
TickMs == 500
MaxFetchTicks == 4
\* most requests released in a run
MaxReleases == 3

\* the rate_limit_ms values tried
RateLimits == {500, 1000, 2000}
\* the urls fetched
FetchUrls == {U_root, U_aFrag, U_ext}

Max(a, b) == IF a >= b THEN a ELSE b

\* run_crawl_job: rate_per_sec
rate_per_sec(rate_limit_ms) ==
    IF rate_limit_ms > 0 THEN Max(1000 \div rate_limit_ms, 1) ELSE 2

\* RateLimitedFetcher::new
RateLimitedFetcherNew(rate_per_second) ==
    [rate_per_second |-> Max(rate_per_second, 1),
     domain_limiters |-> [d \in {} |-> 0]]

\* Quota::per_second(rate): the replenish interval t and the tolerance tau, in ms
QuotaPerSecond(rate) == [t |-> 1000 \div rate, tau |-> (1000 \div rate) * rate]

\* a limiter's decision at time t0: its arrival time so far (t0 + t when it has
\* made no decision yet), the earliest time it lets a cell through, the next state
Gcra(quota, tat, t0) ==
    [earliest |-> IF tat >= quota.tau THEN tat - quota.tau ELSE 0,
     next |-> Max(tat, t0) + quota.t]

\* fetch: the domain whose limiter the request waits on, the url's lowercased
\* host, "" when the url does not parse
FetchDomain(url) == LET u == UrlParse(url) IN IF u = None THEN "" ELSE Lower(u.host)

InitFetch ==
    /\ InitLibIdle /\ MoreIdle
    /\ call = NoCall
    /\ \E rate_limit_ms \in RateLimits :
         fetcher = [rate_limit_ms |-> rate_limit_ms,
                    self |-> RateLimitedFetcherNew(rate_per_sec(rate_limit_ms)),
                    clock |-> 0,
                    released |-> <<>>]

\* fetch(url) up to the return of limiter.until_ready(): get_limiter creates the
\* domain's limiter when there is none; the request is released when the
\* limiter lets it through
FetchUntilReady ==
    /\ fetcher # NoFetcher
    /\ Len(fetcher.released) < MaxReleases
    /\ \E url \in FetchUrls :
        LET domain == FetchDomain(url)
            limiters == fetcher.self.domain_limiters
            quota == QuotaPerSecond(fetcher.self.rate_per_second)
            tat == IF domain \in DOMAIN limiters THEN limiters[domain]
                   ELSE fetcher.clock + quota.t
            g == Gcra(quota, tat, fetcher.clock)
        IN  /\ fetcher.clock >= g.earliest
            /\ fetcher' =
                 [fetcher EXCEPT
                    !.self.domain_limiters =
                       [d \in DOMAIN limiters \cup {domain} |->
                          IF d = domain THEN g.next ELSE limiters[d]],
                    !.released = Append(@, [domain |-> domain, at |-> fetcher.clock])]
    /\ UNCHANGED <<frontierVars, jobVars, audits, http, call, site, moreVars>>

\* time passes
FetchClockTick ==
    /\ fetcher # NoFetcher
    /\ fetcher.clock < TickMs * MaxFetchTicks
    /\ fetcher' = [fetcher EXCEPT !.clock = @ + TickMs]
    /\ UNCHANGED <<frontierVars, jobVars, audits, http, call, site, moreVars>>

NextFetch == FetchUntilReady \/ FetchClockTick

SpecFetch == InitFetch /\ [][NextFetch]_vars

(***************************************************************************)
(* SpecSubmit: a JobManager that gets several submit() calls.  manager     *)
(* holds the JobEntry objects created (each Arc<Mutex<JobEntry>> is an     *)
(* index into entries), the jobs map (job id -> index, 0 when absent), the *)
(* channel and the run_crawl_job tasks spawned, each with the id of its    *)
(* payload and the entry it was handed.                                    *)
(***************************************************************************)
\* most submit() calls in a run
MaxSubmits == 3

InitSubmit ==
    /\ InitLibIdle
    /\ call = NoCall /\ fetcher = NoFetcher /\ page = NoPage
    /\ manager = [entries |-> <<>>, jobs |-> [id \in JobIds |-> 0], tx |-> <<>>,
                  runners |-> <<>>]

\* submit(payload): a fresh entry replaces whatever the map held for the id,
\* then the payload goes on the channel
ManagerSubmit ==
    /\ manager # NoManager
    /\ Len(manager.entries) < MaxSubmits
    /\ \E job_id \in JobIds :
         manager' = [manager EXCEPT
                       !.entries = Append(@, NewJobEntry),
                       !.jobs[job_id] = Len(manager.entries) + 1,
                       !.tx = Append(@, job_id)]
    /\ UNCHANGED <<frontierVars, jobVars, audits, http, libVars, site, page>>

\* process_loop, one iteration: the entry the map holds now for the payload's
\* id is cloned and handed to a spawned run_crawl_job
ManagerProcessLoop ==
    /\ manager # NoManager
    /\ manager.tx # <<>>
    /\ LET job_id == Head(manager.tx) IN
         manager' = [manager EXCEPT
                       !.tx = Tail(@),
                       !.runners = IF manager.jobs[job_id] = 0 THEN @
                                   ELSE Append(@, [job_id |-> job_id,
                                                   entry |-> manager.jobs[job_id],
                                                   pc |-> "start"])]
    /\ UNCHANGED <<frontierVars, jobVars, audits, http, libVars, site, page>>

\* run_crawl_job on its entry: mark as crawling; later the final status
ManagerRunnerStep ==
    /\ manager # NoManager
    /\ \E r \in 1..Len(manager.runners) :
        LET runner == manager.runners[r] IN
        \/ /\ runner.pc = "start"
           /\ manager' = [manager EXCEPT !.runners[r].pc = "crawl",
                                         !.entries[runner.entry].status = "Crawling"]
        \/ /\ runner.pc = "crawl"
           /\ manager' = [manager EXCEPT
                            !.runners[r].pc = "done",
                            !.entries[runner.entry].status =
                               IF @ # "Cancelled" THEN "Complete" ELSE @]
    /\ UNCHANGED <<frontierVars, jobVars, audits, http, libVars, site, page>>

\* cancel(job_id): the entry the map holds for the id
ManagerCancel ==
    /\ manager # NoManager
    /\ \E job_id \in JobIds :
        /\ manager.jobs[job_id] # 0
        /\ ~manager.entries[manager.jobs[job_id]].cancel_token
        /\ manager' = [manager EXCEPT
                         !.entries[manager.jobs[job_id]] =
                            [@ EXCEPT !.cancel_token = TRUE, !.status = "Cancelled"]]
    /\ UNCHANGED <<frontierVars, jobVars, audits, http, libVars, site, page>>

NextSubmit == ManagerSubmit \/ ManagerProcessLoop \/ ManagerRunnerStep \/ ManagerCancel

SpecSubmit == InitSubmit /\ [][NextSubmit]_vars

(***************************************************************************)
(* SpecPage: one crawl_page pipeline of an engine that may hold a          *)
(* LighthouseRunner and a JsRenderer, up to the runner's match on its      *)
(* result.  page holds the engine's components, where the pipeline stands, *)
(* the three futures of the join!, and what was returned and counted.      *)
(***************************************************************************)
\* first sixteen characters of the content hash, as the keys use them
ContentHash == "hash16"

\* format!("crawls/{}/html/{}.html.gz", job_id, &content_hash[..16])
HtmlKey(job_id, hash) == [job_id |-> job_id, dir |-> "html", hash |-> hash]
\* format!("crawls/{}/lighthouse/{}.json.gz", job_id, &content_hash[..16])
LhKey(job_id, hash) == [job_id |-> job_id, dir |-> "lighthouse", hash |-> hash]

\* the LighthouseResult run_lighthouse returns: no key yet
LighthouseResult == [performance |-> "scores", lh_r2_key |-> <<>>]
\* the links render_links returns
RenderedPageLinks == <<[url |-> U_a, anchor_text |-> "a"], [url |-> U_ext, anchor_text |-> "x"]>>

\* a pipeline that records the audit key only when its upload succeeded
LhKeyIfUploaded(upload, lh_key) == IF upload = "ok" THEN Some(lh_key) ELSE <<>>
\* result.lh_r2_key = Some(lh_key), after upload_json whatever it returned
LhKeyAfterUpload(upload, lh_key) == Some(lh_key)

InitPage ==
    /\ InitLibIdle
    /\ call = NoCall /\ fetcher = NoFetcher /\ manager = NoManager
    /\ \E has_robots, has_lighthouse, has_renderer \in BOOLEAN :
         page = [robots |-> has_robots, lighthouse |-> has_lighthouse,
                 renderer |-> has_renderer,
                 pc |-> "robots", fetched |-> FALSE, is_html |-> FALSE,
                 html_result |-> "pending",
                 lighthouse_fut |-> "pending", lighthouse_result |-> <<>>,
                 renderer_fut |-> "pending", rendered_links |-> <<>>,
                 lh_upload |-> "none",
                 result |-> <<>>, counted |-> "none"]

pageFrame == <<frontierVars, jobVars, audits, http, libVars, site, manager>>

\* the robots test: Err(BlockedByRobots) if a checker refuses the url
PageRobots ==
    /\ page # NoPage /\ page.pc = "robots"
    /\ \/ page' = [page EXCEPT !.pc = "fetch"]
       \/ /\ page.robots
          /\ page' = [page EXCEPT !.pc = "returned",
                                  !.result = Some([err |-> "BlockedByRobots"])]
    /\ UNCHANGED pageFrame

\* fetcher.fetch(url).await.map_err(..)?
PageFetch ==
    /\ page # NoPage /\ page.pc = "fetch"
    /\ \/ \E is_html \in BOOLEAN :
            page' = [page EXCEPT !.pc = "join", !.fetched = TRUE, !.is_html = is_html]
       \/ page' = [page EXCEPT !.pc = "returned", !.result = Some([err |-> "FetchError"])]
    /\ UNCHANGED pageFrame

\* html_upload_fut ends
PageHtmlUpload ==
    /\ page # NoPage /\ page.pc = "join" /\ page.html_result = "pending"
    /\ \E outcome \in {"ok", "err"} : page' = [page EXCEPT !.html_result = outcome]
    /\ UNCHANGED pageFrame

\* lighthouse_fut ends: None without a runner or when run_lighthouse failed
PageLighthouse ==
    /\ page # NoPage /\ page.pc = "join" /\ page.lighthouse_fut = "pending"
    /\ IF page.lighthouse
         THEN \/ page' = [page EXCEPT !.lighthouse_fut = "ok",
                                      !.lighthouse_result = Some(LighthouseResult)]
              \/ page' = [page EXCEPT !.lighthouse_fut = "err"]
         ELSE page' = [page EXCEPT !.lighthouse_fut = "none"]
    /\ UNCHANGED pageFrame

\* renderer_fut ends: None for a non-HTML page, without a renderer or when
\* render_links failed
PageRenderer ==
    /\ page # NoPage /\ page.pc = "join" /\ page.renderer_fut = "pending"
    /\ IF page.is_html /\ page.renderer
         THEN \/ page' = [page EXCEPT !.renderer_fut = "ok",
                                      !.rendered_links = Some(RenderedPageLinks)]
              \/ page' = [page EXCEPT !.renderer_fut = "err"]
         ELSE page' = [page EXCEPT !.renderer_fut = "none"]
    /\ UNCHANGED pageFrame

\* tokio::join! returns; a failed HTML upload is logged
PageJoin ==
    /\ page # NoPage /\ page.pc = "join"
    /\ page.html_result # "pending" /\ page.lighthouse_fut # "pending"
    /\ page.renderer_fut # "pending"
    /\ page' = [page EXCEPT !.pc = IF page.lighthouse_result # <<>> THEN "lh_upload"
                                   ELSE "build"]
    /\ UNCHANGED pageFrame

\* upload_json of the audit, then the key is written into the result
PageLhUpload ==
    /\ page # NoPage /\ page.pc = "lh_upload"
    /\ \E outcome \in {"ok", "err"} :
         page' = [page EXCEPT
                    !.lh_upload = outcome,
                    !.lighthouse_result =
                       Some([@[1] EXCEPT !.lh_r2_key =
                               LhKeyAfterUpload(outcome, LhKey(JobId, ContentHash))]),
                    !.pc = "build"]
    /\ UNCHANGED pageFrame

\* Ok(CrawlPageResult { .. })
PageReturn ==
    /\ page # NoPage /\ page.pc = "build"
    /\ page' = [page EXCEPT
                  !.pc = "returned",
                  !.result = Some([ok |-> [html_r2_key |-> HtmlKey(JobId, ContentHash),
                                           lighthouse |-> page.lighthouse_result,
                                           js_rendered_link_count |->
                                              IF page.rendered_links = <<>> THEN <<>>
                                              ELSE Some(Len(page.rendered_links[1]))]])]
    /\ UNCHANGED pageFrame

\* the runner's match on the joined result
PageJoined ==
    /\ page # NoPage /\ page.pc = "returned"
    /\ page' = [page EXCEPT
                  !.pc = "joined",
                  !.counted = IF "ok" \in DOMAIN page.result[1] THEN "crawled"
                              ELSE IF page.result[1].err = "BlockedByRobots" THEN "none"
                              ELSE "errored"]
    /\ UNCHANGED pageFrame

NextPage ==
    \/ PageRobots \/ PageFetch \/ PageHtmlUpload \/ PageLighthouse \/ PageRenderer
    \/ PageJoin \/ PageLhUpload \/ PageReturn \/ PageJoined

SpecPage == InitPage /\ [][NextPage]_vars

(***************************************************************************)
(* SpecLimiter: concurrent fetch() calls on one RateLimitedFetcher.  Here  *)
(* fetcher holds the limiters created (each Arc<DomainLimiter> is an index *)
(* into limiters, with the domain it was created for and its arrival time, *)
(* empty before its first decision), domain_limiters (domain -> index),    *)
(* the clock and the fetch tasks, each with its url, where it stands in    *)
(* get_limiter and the limiter it got.                                     *)
(***************************************************************************)
\* the urls of the concurrent fetches: two to e.com, one to x.org
LimiterTaskUrls == <<U_root, U_aFrag, U_ext>>
\* requests per second of the fetcher
LimiterRate == 1

\* an insert that does not look whether the domain has a limiter
SlowPathAlwaysCreates(limiters, domain, fresh) == fresh
\* entry(domain).or_insert_with(..): the limiter there, else the fresh one
SlowPath(limiters, domain, fresh) ==
    IF domain \in DOMAIN limiters THEN limiters[domain] ELSE fresh

InitLimiter ==
    /\ InitLibIdle /\ MoreIdle
    /\ call = NoCall
    /\ fetcher = [self |-> RateLimitedFetcherNew(LimiterRate),
                  limiters |-> <<>>,
                  clock |-> 0,
                  tasks |-> [t \in 1..Len(LimiterTaskUrls) |->
                               [url |-> LimiterTaskUrls[t], pc |-> "fetch",
                                limiter |-> 0, at |-> 0]]]

limiterFrame == <<frontierVars, jobVars, audits, http, call, site, moreVars>>

\* get_limiter, fast path: under the read lock
LimiterFastPath ==
    /\ fetcher # NoFetcher
    /\ \E t \in 1..Len(fetcher.tasks) :
        LET domain == FetchDomain(fetcher.tasks[t].url)
            map == fetcher.self.domain_limiters
        IN  /\ fetcher.tasks[t].pc = "fetch"
            /\ fetcher' = IF domain \in DOMAIN map
                            THEN [fetcher EXCEPT !.tasks[t].pc = "until_ready",
                                                 !.tasks[t].limiter = map[domain]]
                            ELSE [fetcher EXCEPT !.tasks[t].pc = "write"]
    /\ UNCHANGED limiterFrame

\* get_limiter, slow path: under the write lock
LimiterSlowPath ==
    /\ fetcher # NoFetcher
    /\ \E t \in 1..Len(fetcher.tasks) :
        LET domain == FetchDomain(fetcher.tasks[t].url)
            map == fetcher.self.domain_limiters
            fresh == Len(fetcher.limiters) + 1
            got == SlowPath(map, domain, fresh)
        IN  /\ fetcher.tasks[t].pc = "write"
            /\ fetcher' =
                 [fetcher EXCEPT
                    !.limiters = IF got = fresh
                                   THEN Append(@, [domain |-> domain, tat |-> <<>>])
                                   ELSE @,
                    !.self.domain_limiters =
                       [d \in DOMAIN map \cup {domain} |-> IF d = domain THEN got ELSE map[d]],
                    !.tasks[t].pc = "until_ready",
                    !.tasks[t].limiter = got]
    /\ UNCHANGED limiterFrame

\* limiter.until_ready() returns: the task's limiter lets the request through
LimiterUntilReady ==
    /\ fetcher # NoFetcher
    /\ \E t \in 1..Len(fetcher.tasks) :
        LET l == fetcher.tasks[t].limiter
            quota == QuotaPerSecond(fetcher.self.rate_per_second)
            tat == IF fetcher.limiters[l].tat = <<>> THEN fetcher.clock + quota.t
                   ELSE fetcher.limiters[l].tat[1]
            g == Gcra(quota, tat, fetcher.clock)
        IN  /\ fetcher.tasks[t].pc = "until_ready"
            /\ fetcher.clock >= g.earliest
            /\ fetcher' = [fetcher EXCEPT !.limiters[l].tat = Some(g.next),
                                          !.tasks[t].pc = "released",
                                          !.tasks[t].at = fetcher.clock]
    /\ UNCHANGED limiterFrame

\* time passes
LimiterClockTick ==
    /\ fetcher # NoFetcher
    /\ fetcher.clock < TickMs * MaxFetchTicks
    /\ fetcher' = [fetcher EXCEPT !.clock = @ + TickMs]
    /\ UNCHANGED limiterFrame

NextLimiter == LimiterFastPath \/ LimiterSlowPath \/ LimiterUntilReady \/ LimiterClockTick

SpecLimiter == InitLimiter /\ [][NextLimiter]_vars

(***************************************************************************)
(* SpecPermit: the page pipelines of one job on one LighthouseRunner or    *)
(* JsRenderer instance (both follow the same pattern).  Here audits holds  *)
(* the instance: its kind, max_concurrent, the semaphore's free permits,   *)
(* the semaphore's queue of waiters (tokio's Semaphore is fair: first      *)
(* come, first served) and, per pipeline, where it stands: "idle",         *)
(* "waiting" in acquire(), "running" past it, "done" with its outcome, or  *)
(* "aborted" by the runner's abort_all().                                  *)
(***************************************************************************)
\* the pipelines of the job
Pipelines == 1..3

\* how a run past the acquire can end
RunOutcomes == {"ok", "process_error", "parse_error", "timeout"}

\* a run whose timeout path keeps the permit
PermitsAfterExitLeaky(permits, outcome) ==
    IF outcome = "timeout" THEN permits ELSE permits + 1
\* _permit is dropped when run_lighthouse / render_links returns, on every path
PermitsAfterExit(permits, outcome) == permits + 1

InitPermit ==
    /\ InitJobsIdle /\ http = NoHttp /\ site = NoSite /\ MoreIdle
    /\ call = NoCall /\ fetcher = NoFetcher
    /\ \E kind \in {"LighthouseRunner", "JsRenderer"}, max_concurrent \in 0..MaxAuditsBound :
         audits = [kind |-> kind, max_concurrent |-> max_concurrent,
                   semaphore |-> max_concurrent, queue |-> <<>>,
                   pipelines |-> [p \in Pipelines |-> [state |-> "idle", outcome |-> "none"]],
                   cancelled |-> FALSE]

permitFrame == <<frontierVars, jobVars, http, libVars, site, moreVars>>

\* a pipeline calls run_lighthouse / render_links: it enters semaphore.acquire()
PermitRequest ==
    /\ audits # NoAudits /\ ~audits.cancelled
    /\ \E p \in Pipelines :
        /\ audits.pipelines[p].state = "idle"
        /\ audits' = [audits EXCEPT !.pipelines[p].state = "waiting",
                                    !.queue = Append(@, p)]
    /\ UNCHANGED permitFrame

\* acquire() returns a permit to the first waiter
PermitAcquire ==
    /\ audits # NoAudits
    /\ audits.queue # <<>> /\ audits.semaphore > 0
    /\ audits' = [audits EXCEPT !.semaphore = @ - 1,
                                !.queue = Tail(@),
                                !.pipelines[Head(audits.queue)].state = "running"]
    /\ UNCHANGED permitFrame

\* the run ends: success, remote or process error, parse error or timeout
PermitExit ==
    /\ audits # NoAudits
    /\ \E p \in Pipelines, outcome \in RunOutcomes :
        /\ audits.pipelines[p].state = "running"
        /\ audits' = [audits EXCEPT
                        !.semaphore = PermitsAfterExit(@, outcome),
                        !.pipelines[p] = [state |-> "done", outcome |-> outcome]]
    /\ UNCHANGED permitFrame

\* the job is cancelled: abort_all() drops every pipeline's future, a waiter
\* leaves the queue, a running one drops its permit
PermitAbortAll ==
    /\ audits # NoAudits /\ ~audits.cancelled
    /\ LET running == {p \in Pipelines : audits.pipelines[p].state = "running"} IN
       audits' = [audits EXCEPT
                    !.cancelled = TRUE,
                    !.queue = <<>>,
                    !.semaphore = @ + Cardinality(running),
                    !.pipelines = [p \in Pipelines |->
                                     IF audits.pipelines[p].state \in {"waiting", "running"}
                                       THEN [state |-> "aborted", outcome |-> "none"]
                                       ELSE audits.pipelines[p]]]
    /\ UNCHANGED permitFrame

NextPermit == PermitRequest \/ PermitAcquire \/ PermitExit \/ PermitAbortAll

\* the scheduler runs a waiter that can be woken, and every run ends (the
\* subprocess waits have a timeout, a remote audit ends with its HTTP request)
SpecPermit ==
    InitPermit /\ [][NextPermit]_vars /\ WF_vars(PermitAcquire) /\ WF_vars(PermitExit)

(***************************************************************************)
(* Properties of the Frontier (checked under SpecFrontier).                *)
(***************************************************************************)
\* position of entry e in the push history
Pos(e) == CHOOSE i \in 1..Len(inserted) : inserted[i] = e

\* C6: the frontier never enqueues a url twice and next() never returns the same
\* normalized url twice, also for a url that was already popped.
C6_NoUrlTwice ==
    /\ \A i, j \in 1..Len(inserted) : inserted[i].url = inserted[j].url => i = j
    /\ \A i, j \in 1..Len(emitted) : emitted[i].url = emitted[j].url => i = j
\* an already popped url was offered again at an admissible depth
C6_Witness ==
    /\ op.kind = "add" /\ op.popped /\ ~op.beyond
    /\ Len(emitted) >= 2

\* C7: every queued and every returned entry has depth <= max_depth, and
\* add_discovered with depth > max_depth changes neither queue nor seen-set.
C7_DepthState ==
    /\ \A i \in 1..Len(frontier.queue) : frontier.queue[i].depth <= frontier.max_depth
    /\ \A i \in 1..Len(emitted) : emitted[i].depth <= frontier.max_depth
C7_DepthBounded ==
    /\ []C7_DepthState
    /\ [][op'.kind = "add" /\ op'.beyond
            => frontier' = frontier /\ inserted' = inserted]_vars
\* add_discovered was called beyond max_depth with a url not yet seen
C7_Witness ==
    /\ op.kind = "add" /\ op.beyond /\ op.fresh
    /\ pending_count(frontier) >= 1

\* C8: the entry next() returns has minimal depth among the entries pending
\* when it is called.
C8_ShallowestFirst ==
    [][Len(emitted') > Len(emitted)
         => \A i \in 1..Len(frontier.queue) :
               emitted'[Len(emitted')].depth <= frontier.queue[i].depth]_vars
\* next() returned an entry while a deeper entry, pushed before it, is pending
C8_Witness ==
    /\ op.kind = "next" /\ emitted # <<>>
    /\ \E i \in 1..Len(frontier.queue) :
         /\ frontier.queue[i].depth > emitted[Len(emitted)].depth
         /\ Pos(frontier.queue[i]) < Pos(emitted[Len(emitted)])

\* C9: entries of equal depth are returned in the order they were pushed.
C9_FifoWithinDepth ==
    \A i, j \in 1..Len(emitted) :
        (i < j /\ emitted[i].depth = emitted[j].depth)
            => Pos(emitted[i]) < Pos(emitted[j])

(***************************************************************************)
(* Properties of the job runner (checked under Spec).                      *)
(***************************************************************************)
\* every CrawlStats snapshot taken so far: the JobEntry's and the batches'
StatsSnapshots ==
    (IF jobs[JobId] # <<>> /\ entry.stats # <<>> THEN {entry.stats[1]} ELSE {})
      \cup {sent[i].stats : i \in 1..Len(sent)}

\* C1: as long as the job has not been cancelled, pages_crawled + pages_errored
\* <= max_pages, in the runner's counters (so at the end of the run) and in every
\* stats snapshot.
C1_CrawledPlusErroredWithinMax ==
    (jobs[JobId] = <<>> \/ ~entry.cancel_token) =>
        /\ pages_crawled + pages_errored <= crawl_config.max_pages
        /\ \A st \in StatsSnapshots :
             st.pages_crawled + st.pages_errored <= crawl_config.max_pages

\* C2: once the job's status is Cancelled it stays Cancelled.
C2_CancelledIsFinal ==
    [][(jobs[JobId] # <<>> /\ status(JobId).status = "Cancelled")
          => status(JobId).status' = "Cancelled"]_vars

\* C3 as stated: after the cancel branch was taken no batch is handed to the
\* callback emitter.
C3_NoCallbackAfterCancel == cancel_seen >= 0 => Len(sent) = cancel_seen
\* C3 as amended: after the cancel branch was taken the runner sends no non-final
\* batch and sends exactly one more batch, the final one (is_final = true).
C3_OnlyFinalAfterCancel ==
    cancel_seen >= 0 =>
        /\ Len(sent) <= cancel_seen + 1
        /\ \A i \in 1..Len(sent) : sent[i].is_final <=> i = cancel_seen + 1
        /\ pc \in {"final_backlinks", "finish", "done"} => Len(sent) = cancel_seen + 1
\* a cancelled run has ended, and its final batch carried the accumulated pages
C3_Witness ==
    /\ cancel_seen >= 0 /\ pc = "done"
    /\ Len(sent) = cancel_seen + 1
    /\ sent[Len(sent)].is_final /\ sent[Len(sent)].pages # <<>>

\* C4: no batch follows a batch with is_final = true, and a run that ended
\* without seeing a cancellation has sent exactly one final batch, as its last.
C4_OneFinalBatchLast ==
    /\ \A i \in 1..Len(sent) : sent[i].is_final => i = Len(sent)
    /\ (pc = "done" /\ cancel_seen = -1) => (sent # <<>> /\ sent[Len(sent)].is_final)
C4_Witness ==
    /\ pc = "done" /\ cancel_seen = -1
    /\ Len(sent) >= 3 /\ sent[Len(sent)].is_final /\ ~sent[1].is_final

\* C5: the batches handed to the callback emitter carry the indices 0, 1, 2, ...
\* in send order.
C5_BatchIndexCounts == \A i \in 1..Len(sent) : sent[i].batch_index = i - 1
\* a second batch was just sent after a flush that both the threshold and the
\* interval asked for, and some callback POST has failed
C5_Witness ==
    /\ pc = "send_backlinks" /\ Len(sent) >= 2 /\ post_failed
    /\ Len(batch.pages) >= config.batch_page_threshold
    /\ now - last_batch_time >= config.batch_interval_secs

\* C10: the JoinSet never holds more than max_concurrent_fetches page pipelines.
C10_WorkerPoolBounded == Len(join_set) <= config.max_concurrent_fetches
\* the pool is full while urls are pending and the page budget is not used up
C10_Witness ==
    /\ pc = "select"
    /\ Len(join_set) = config.max_concurrent_fetches
    /\ \A i \in 1..Len(join_set) : join_set[i].state = "running"
    /\ pending_count(frontier) >= 1
    /\ pages_crawled + Len(join_set) < crawl_config.max_pages

\* C12: with the token cancelled the runner's step out of the select is the
\* cancel branch, also when a worker completion is ready; it leaves no pipeline
\* running; from the cancel branch on pages_crawled, pages_errored, the frontier
\* and the batch accumulator do not change.
C12_CancelPreemptsAndFreezes ==
    [][/\ (pc = "select" /\ entry.cancel_token /\ pc' # pc) =>
            /\ pc' = "final" /\ cancel_seen' = Len(sent)
            /\ Len(join_set') = Len(join_set)
            /\ \A i \in 1..Len(join_set') : join_set'[i].state # "running"
            /\ UNCHANGED <<pages_crawled, pages_errored, frontier, batch_pages>>
       /\ cancel_seen >= 0 =>
            UNCHANGED <<pages_crawled, pages_errored, frontier, batch_pages>>]_vars
\* the cancel branch was taken while one completion was ready and another
\* pipeline was live
C12_Witness ==
    /\ cancel_seen >= 0 /\ pc = "final"
    /\ \E i, j \in 1..Len(join_set) :
         join_set[i].state = "ok" /\ join_set[j].state = "aborted"

C15_UncancelledJobCompletes ==
    /\ (jobs[JobId] # <<>>) ~>
         (jobs[JobId] # <<>> /\ (entry.cancel_token \/ entry.status = "Complete"))
    /\ [](\A i, j \in 1..Len(sent) : sent[i].batch_index = sent[j].batch_index => i = j)
\* a job that was never cancelled is Complete although a callback POST failed
C15_Witness ==
    /\ pc = "done" /\ ~entry.cancel_token /\ entry.status = "Complete"
    /\ post_failed /\ Len(sent) >= 2 /\ pages_errored >= 1

\* C16: joining a pipeline that ended with BlockedByRobots changes neither
\* counter nor the frontier and adds no page to the accumulator (a flush the
\* interval asks for carries the pages already there); joining any task adds 1 to
\* pages_errored exactly when it ended with another error or panicked.
C16_RobotsBlockNotCounted ==
    [][\A i \in 1..Len(join_set) :
         (pc = "select" /\ cancel_seen' = cancel_seen
            /\ join_set' = RemoveAt(join_set, i)) =>
           /\ pages_errored' = pages_errored
                 + (IF join_set[i].state \in {"error", "panic"} THEN 1 ELSE 0)
           /\ join_set[i].state = "blocked" =>
                /\ UNCHANGED <<pages_crawled, pages_errored, frontier>>
                /\ IF pc' = "send_callback"
                     THEN batch'.pages = batch_pages /\ batch_pages' = <<>>
                     ELSE batch_pages' = batch_pages]_vars
\* some popped url was joined without being counted, and another was counted as
\* an error
C16_Witness ==
    /\ robots /\ cancel_seen = -1 /\ pc = "fill"
    /\ crawled_count(frontier) > pages_crawled + pages_errored + Len(join_set)
    /\ pages_errored >= 1 /\ pages_crawled >= 1

\* C18: a run whose loop ended without a cancel has sent the final batch, with
\* is_final = true, the current index, the accumulator's pages (none included)
\* and the final stats, which are also the JobEntry's stats at the end.
C18_FinalBatchAlwaysSent ==
    (pc \in {"final_backlinks", "finish", "done"} /\ cancel_seen = -1) =>
        /\ sent # <<>>
        /\ LET b == sent[Len(sent)] IN
             /\ b.is_final /\ b.batch_index = batch_index /\ b.pages = batch_pages
             /\ b.stats = CrawlStats(pending_count(frontier) + pages_crawled
                                       + pages_errored, pages_crawled, pages_errored)
             /\ pc = "done" => entry.stats = Some(b.stats)
\* the final batch was sent empty after non-final batches took every page
C18_Witness ==
    /\ pc = "done" /\ cancel_seen = -1
    /\ Len(sent) >= 2 /\ sent[Len(sent)].pages = <<>> /\ sent[Len(sent)].is_final
    /\ sent[1].pages # <<>>

(***************************************************************************)
(* Properties of size-triggered batching (checked under SpecBatch).        *)
(***************************************************************************)
\* C17: without interval expiry the accumulator stays below the threshold
\* between completions, every non-final batch carries exactly threshold pages,
\* and an uncancelled run of n crawled pages ends with n div threshold non-final
\* batches and a final batch of n mod threshold pages; with threshold 3 and five
\* pages: index 0 with 3 pages, non-final, then index 1 with 2 pages, final.
C17_FlushAtThreshold ==
    LET T == config.batch_page_threshold IN
    /\ Len(batch_pages) < T
    /\ \A i \in 1..Len(sent) : ~sent[i].is_final => Len(sent[i].pages) = T
    /\ (pc = "done" /\ cancel_seen = -1) =>
         /\ Len(sent) = (pages_crawled \div T) + 1
         /\ Len(sent[Len(sent)].pages) = pages_crawled % T
         /\ sent[Len(sent)].is_final
    /\ (pc = "done" /\ cancel_seen = -1 /\ pages_crawled = 5 /\ T = 3) =>
         /\ Len(sent) = 2
         /\ sent[1].batch_index = 0 /\ Len(sent[1].pages) = 3 /\ ~sent[1].is_final
         /\ sent[2].batch_index = 1 /\ Len(sent[2].pages) = 2 /\ sent[2].is_final
\* five pages were crawled and the run ended without a cancel
C17_Witness ==
    /\ pc = "done" /\ cancel_seen = -1 /\ ~entry.cancel_token
    /\ pages_crawled = 5 /\ config.batch_page_threshold = 3
    /\ Len(sent) = 2 /\ Len(sent[1].pages) = 3 /\ Len(sent[2].pages) = 2

(***************************************************************************)
(* Properties of the audits (checked under SpecAudit).                     *)
(***************************************************************************)
RECURSIVE HoldingIn(_)
\* the audits past the semaphore acquire in the jobs of set S
HoldingIn(S) ==
    IF S = {} THEN 0
    ELSE LET j == CHOOSE x \in S : TRUE IN audits[j].holding + HoldingIn(S \ {j})

\* C11: over all jobs, the audits that hold a permit number at most
\* max_concurrent_lighthouse.
C11_AuditsGloballyBounded == HoldingIn(JobIds) <= config.max_concurrent_lighthouse

(***************************************************************************)
(* Properties of the authenticated routes (checked under SpecServer).      *)
(***************************************************************************)
\* C14: Status of an identifier that was never submitted answers Pending with
\* no stats, and neither Status nor Cancel of such an identifier creates an
\* entry or changes the jobs map.
C14_AbsentJobUntouched ==
    [][\A id \in JobIds :
         ( /\ jobs[id] = <<>>
           /\ http' # NoHttp
           /\ http'[1].code = 200
           /\ http'[1].req.endpoint \in {"get_job_status", "cancel_job"}
           /\ http'[1].req.job_id = id )
         => /\ jobs' = jobs
            /\ tx' = tx
            /\ http'[1].req.endpoint = "get_job_status" =>
                  http'[1].reply = [job_id |-> id, status |-> "Pending", stats |-> <<>>]
      ]_vars
\* Status of j2, never submitted, was answered Pending while j1 has an entry
C14_Witness ==
    /\ http # NoHttp
    /\ http[1].code = 200
    /\ http[1].req.endpoint = "get_job_status"
    /\ http[1].req.job_id = "j2"
    /\ http[1].reply.status = "Pending"
    /\ jobs["j2"] = <<>>
    /\ jobs[JobId] # <<>>

\* the distance in seconds between server time and a readable X-Timestamp
TimestampDistance(request) ==
    LET t == ParseU64(request.timestamp.text) IN
    IF now >= t THEN now - t ELSE t - now
ReadableTimestamp(request) ==
    /\ request.timestamp.kind = "text"
    /\ ParseU64(request.timestamp.text) # -1
\* the signature header carries the tag of secret over timestamp || body
SignatureMatches(request) ==
    /\ request.signature.kind = "text"
    /\ request.timestamp.kind = "text"
    /\ request.signature.text.hex
         = Hmac(Secret, request.timestamp.text \o request.body.bytes)

\* C19: a request whose X-Timestamp is more than 300 seconds from server time,
\* before or after, is answered 401; at 300 seconds or less it is not rejected
\* for drift: with a matching signature and a readable body it is not answered
\* 401 at all.
C19_DriftWindow ==
    (http # NoHttp /\ ReadableTimestamp(http[1].req)) =>
        /\ TimestampDistance(http[1].req) > 300 => http[1].code = 401
        /\ TimestampDistance(http[1].req) <= 300 =>
              /\ http[1].reply # [error |-> "Timestamp too far from current time"]
              /\ (SignatureMatches(http[1].req) /\ ~http[1].req.body.oversize) =>
                    http[1].code # 401
\* a request stamped exactly 300 seconds ahead of the server was handled
C19_Witness ==
    /\ http # NoHttp
    /\ ReadableTimestamp(http[1].req)
    /\ ParseU64(http[1].req.timestamp.text) = now + 300
    /\ http[1].code \in {200, 202}

\* the requests of C20: signature not matching, or a header missing or malformed
Unauthentic(request) ==
    \/ request.signature.kind # "text"
    \/ ~ReadableTimestamp(request)
    \/ ~SignatureMatches(request)

\* C20 as stated: such a request is answered 401 and the jobs map and the
\* channel are unchanged.
C20_UnauthenticAnswered401 ==
    [][(http' # NoHttp /\ Unauthentic(http'[1].req)) =>
          /\ http'[1].code = 401
          /\ jobs' = jobs /\ tx' = tx
      ]_vars
\* C20: a request whose signature does not match, or whose signature or
\* timestamp header is missing or malformed, never reaches the engine; it is
\* answered 401, or 400 when its headers are readable, its timestamp is within
\* the window and its body exceeds the read limit.
C20_UnauthenticNeverReachesEngine ==
    [][(http' # NoHttp /\ Unauthentic(http'[1].req)) =>
          /\ \/ http'[1].code = 401
             \/ /\ http'[1].code = 400
                /\ http'[1].req.body.oversize
                /\ http'[1].req.signature.kind = "text"
                /\ ReadableTimestamp(http'[1].req)
                /\ TimestampDistance(http'[1].req) <= 300
          /\ jobs' = jobs /\ tx' = tx
      ]_vars
\* a request signed with the secret and altered afterwards was answered 401
\* while the engine holds a job
C20_Witness ==
    /\ http # NoHttp
    /\ http[1].req.signature.kind = "text"
    /\ http[1].req.signature.text.hex.key = Secret
    /\ ReadableTimestamp(http[1].req)
    /\ TimestampDistance(http[1].req) <= 300
    /\ ~SignatureMatches(http[1].req)
    /\ ~http[1].req.body.oversize
    /\ http[1].code = 401
    /\ jobs[JobId] # <<>>

(***************************************************************************)
(* Properties of the library functions (checked under SpecLib).            *)
(***************************************************************************)
IsAllowedReturned ==
    call # NoCall /\ call.fn = "is_allowed" /\ call.ret # <<>>

\* C21: for the two groups on consecutive lines, /public is allowed for SomeBot
\* and /admin/x is disallowed for every user agent: a Disallow rule applies only
\* to the group it belongs to.
C21_DisallowStaysInItsGroup ==
    (IsAllowedReturned /\ call.content = RobotsAdjacentGroups) =>
        /\ (call.url = U_public /\ call.user_agent = SomeBot) => call.ret[1] = TRUE
        /\ call.url = U_adminx => call.ret[1] = FALSE

\* pattern is a prefix of path
IsPrefixOf(pattern, path) ==
    /\ Len(pattern) <= Len(path)
    /\ \A k \in 1..Len(pattern) : path[k] = pattern[k]

\* C22: is_allowed returns false exactly when some non-empty Disallow prefix
\* recorded for the lower-cased user agent or for the wildcard is a prefix of
\* the path of the URL; both groups apply together, an empty Disallow never blocks.
C22_BlockedIffPrefix ==
    IsAllowedReturned =>
        LET rules == parse_robots_txt(call.content)
            parsed == UrlParse(call.url)
        IN  (call.ret[1] = FALSE) <=>
              /\ parsed # None
              /\ \E agent \in {to_lowercase(call.user_agent), Wildcard} \cap DOMAIN rules :
                   \E i \in 1..Len(rules[agent]) :
                       /\ rules[agent][i] # <<>>
                       /\ IsPrefixOf(rules[agent][i], parsed.path)
\* GoogleOther, which has a group of its own, was refused a path that only the
\* wildcard group disallows
C22_Witness ==
    /\ IsAllowedReturned
    /\ call.content = RobotsGoogleOther
    /\ call.user_agent = GoogleOther
    /\ call.url = U_adminx
    /\ call.ret[1] = FALSE

(***************************************************************************)
(* Properties of the robots and sitemap bootstrap (checked under Spec).    *)
(***************************************************************************)
\* the rules disallow path for user agent ua
DisallowedPath(rules, ua, path) ==
    \E agent \in {to_lowercase(ua), Wildcard} \cap DOMAIN rules :
        \E i \in 1..Len(rules[agent]) :
            /\ rules[agent][i] # <<>>
            /\ IsPrefixOf(rules[agent][i], path)

SeqRange(seq) == {seq[i] : i \in 1..Len(seq)}

\* C23: after the bootstrap of a job whose robots.txt was fetched,
\* ai_crawlers_blocked is exactly the set of probe bots that the rules disallow
\* for the path "/", whatever respect_robots is.
C23_AiCrawlersBlockedFromRules ==
    (site # NoSite /\ site.fetched) =>
        SeqRange(site.ai_crawlers_blocked)
          = {bot \in SeqRange(AI_BOT_USER_AGENTS) : DisallowedPath(site.rules, bot, <<"/">>)}

\* C30: sitemap urls enter the frontier at depth 0 only, at most max_pages of
\* them are offered, none that a retained checker disallows for the job's user
\* agent is offered or enqueued; with respect_robots = false no checker is
\* retained and no page pipeline ends with BlockedByRobots.
C30_SitemapMergeGated ==
    /\ site # NoSite =>
         /\ \A e \in SeqRange(site.pushed) : e.depth = 0
         /\ Len(site.to_add) <= crawl_config.max_pages
         /\ SeqRange(site.to_add) \subseteq SeqRange(site.sitemap_urls)
         /\ robots =>
              /\ \A u \in SeqRange(site.to_add) :
                   UrlParse(u) # None =>
                     ~DisallowedPath(site.rules, user_agent, UrlParse(u).path)
              /\ \A e \in SeqRange(site.pushed) :
                   ~DisallowedPath(site.rules, user_agent, e.url.path)
    /\ ~crawl_config.respect_robots =>
         /\ ~robots
         /\ \A i \in 1..Len(join_set) : join_set[i].state # "blocked"
\* a retained checker disallows a url of the sitemap, which was not offered,
\* while another sitemap url went to the frontier check
C30_Witness ==
    /\ site # NoSite /\ robots
    /\ site.to_add # <<>>
    /\ \E u \in SeqRange(site.sitemap_urls) :
         /\ DisallowedPath(site.rules, user_agent, UrlParse(u).path)
         /\ u \notin SeqRange(site.to_add)
    /\ pc = "done"

NormalizeReturned ==
    call # NoCall /\ call.fn = "normalize_url" /\ call.ret # <<>>

\* C24: normalize_url is idempotent on every parseable url, also on paths that
\* end in more than one slash; "https://E.com/p/#x" and "https://e.com/p" both
\* normalize to "https://e.com/p".
C24_NormalizeIdempotent ==
    NormalizeReturned =>
        /\ call.ret[1].once # None => call.ret[1].twice = call.ret[1].once
        /\ call.url \in {U_pFrag, U_p} => call.ret[1].once = U_p

MergeReturned ==
    call # NoCall /\ call.fn = "merge_links" /\ call.ret # <<>>

Count(u, seq) == Cardinality({i \in 1..Len(seq) : seq[i] = u})
FirstIndex(seq, u) == CHOOSE i \in 1..Len(seq) : seq[i] = u /\ \A j \in 1..(i - 1) : seq[j] # u

\* the urls of the rendered links of the call, in order
RenderedUrls == IF call.rendered = <<>> THEN <<>>
                ELSE [i \in 1..Len(call.rendered[1]) |-> call.rendered[1][i].url]

\* a rendered url that is not dropped: none of the four schemes, parseable, http(s)
KeptLink(u) ==
    /\ u.scheme \notin {"javascript", "mailto", "tel", "data"}
    /\ UrlParse(u) # None
    /\ UrlParse(u).scheme \in {"http", "https"}
\* a kept rendered url counts as internal: its host is the page's host
InternalLink(u) ==
    /\ UrlParse(call.page_url) # None /\ UrlParse(call.page_url).host # ""
    /\ UrlParse(u).host = UrlParse(call.page_url).host

\* merged is static followed by the urls of wanted, once each, in the order of
\* their first appearance among the rendered links
MergedWell(static, merged, wanted) ==
    /\ Len(merged) >= Len(static)
    /\ SubSeq(merged, 1, Len(static)) = static
    /\ LET appended == SubSeq(merged, Len(static) + 1, Len(merged)) IN
         /\ SeqRange(appended) = wanted
         /\ \A i, j \in 1..Len(appended) :
              i < j => FirstIndex(RenderedUrls, appended[i])
                         < FirstIndex(RenderedUrls, appended[j])

\* C25 as stated: static entries keep their order, new rendered links are
\* appended, dropped links are not, and a link of a static list that occurs
\* again among the rendered links appears exactly once in the merged list.
C25_MergedExactlyOnce ==
    MergeReturned =>
        /\ MergedWell(call.static_internal, call.ret[1].merged_internal,
                      {u \in SeqRange(RenderedUrls) : KeptLink(u) /\ InternalLink(u)}
                        \ SeqRange(call.static_internal))
        /\ MergedWell(call.static_external, call.ret[1].merged_external,
                      {u \in SeqRange(RenderedUrls) : KeptLink(u) /\ ~InternalLink(u)}
                        \ SeqRange(call.static_external))
        /\ \A u \in SeqRange(call.static_internal) \cap SeqRange(RenderedUrls) :
             Count(u, call.ret[1].merged_internal) = 1
        /\ \A u \in SeqRange(call.static_external) \cap SeqRange(RenderedUrls) :
             Count(u, call.ret[1].merged_external) = 1
\* C25: static entries keep their order, new rendered links are appended once,
\* dropped links are not, and a link of a static list that occurs again among
\* the rendered links appears in the merged list as often as in the static list.
C25_MergeAddsNoCopy ==
    MergeReturned =>
        /\ MergedWell(call.static_internal, call.ret[1].merged_internal,
                      {u \in SeqRange(RenderedUrls) : KeptLink(u) /\ InternalLink(u)}
                        \ SeqRange(call.static_internal))
        /\ MergedWell(call.static_external, call.ret[1].merged_external,
                      {u \in SeqRange(RenderedUrls) : KeptLink(u) /\ ~InternalLink(u)}
                        \ SeqRange(call.static_external))
        /\ \A u \in SeqRange(call.static_internal) \cap SeqRange(RenderedUrls) :
             Count(u, call.ret[1].merged_internal) = Count(u, call.static_internal)
        /\ \A u \in SeqRange(call.static_external) \cap SeqRange(RenderedUrls) :
             Count(u, call.ret[1].merged_external) = Count(u, call.static_external)
\* static [/a] merged with rendered [/a, /b, mailto:, javascript:] on the page
\* https://e.com gave internal [/a, /b] and no new external link
C25_Witness ==
    /\ MergeReturned
    /\ call.static_internal = <<U_a>>
    /\ RenderedUrls = <<U_a, U_b, U_mailto, U_js>>
    /\ call.page_url = U_root
    /\ call.ret[1].merged_internal = <<U_a, U_b>>
    /\ call.ret[1].merged_external = call.static_external

(***************************************************************************)
(* Properties of the fetcher (checked under SpecFetch).                    *)
(***************************************************************************)
\* C26: for every host and every rate_limit_ms >= 1, no two requests to the
\* same host are released less than rate_limit_ms milliseconds apart (one
\* request per rate_limit_ms, burst 1).
C26_OneRequestPerRateLimit ==
    fetcher # NoFetcher =>
        \A i, j \in 1..Len(fetcher.released) :
            (i < j /\ fetcher.released[i].domain = fetcher.released[j].domain) =>
                fetcher.released[j].at - fetcher.released[i].at >= fetcher.rate_limit_ms

(***************************************************************************)
(* Properties of the backlinks POSTs (checked under Spec).                 *)
(***************************************************************************)
\* the external-link details of the pages, each with its page, in page order
RECURSIVE ExternalDetails(_)
ExternalDetails(pages) ==
    IF pages = <<>> THEN <<>>
    ELSE [k \in 1..Len(Head(pages).external_link_details) |->
             [page |-> Head(pages), link |-> Head(pages).external_link_details[k]]]
           \o ExternalDetails(Tail(pages))

HasTargetHost(detail) ==
    LET u == UrlParse(detail.link.url) IN u # None /\ u.host # ""

\* the entries a batch's POST has to carry: one per detail with a target host
ExpectedEntries(pages) ==
    LET details == SelectSeq(ExternalDetails(pages), HasTargetHost) IN
    [k \in 1..Len(details) |->
        [source_url |-> details[k].page.url,
         source_domain |-> UrlParse(details[k].page.url).host,
         target_url |-> details[k].link.url,
         target_domain |-> UrlParse(details[k].link.url).host,
         anchor_text |-> details[k].link.anchor_text,
         rel |-> details[k].link.rel]]

\* the POSTs due for the first n batches sent: none for a batch without entries
RECURSIVE ExpectedPosts(_)
ExpectedPosts(n) ==
    IF n = 0 THEN <<>>
    ELSE ExpectedPosts(n - 1) \o
           (IF ExpectedEntries(sent[n].pages) = <<>> THEN <<>>
            ELSE <<ExpectedEntries(sent[n].pages)>>)

\* the batches whose backlinks step is over: all those sent, but the last one
\* while the runner stands between its callback and its backlinks POST
BacklinksDone ==
    IF pc \in {"send_backlinks", "final_backlinks"} THEN Len(sent) - 1 ELSE Len(sent)

\* C27: when a batch's callback is sent, the backlinks POST of every earlier
\* batch has been issued; each POST carries one BacklinkEntry per external-link
\* detail of its batch that has a non-empty target host, and a batch without
\* such a detail gets no POST.
C27_BacklinksFollowTheirBatch == backlinks = ExpectedPosts(BacklinksDone)

\* a batch with entries was posted, a batch without entries was not, and a
\* later batch's callback has been sent
C27_Witness ==
    \E i, j, k \in 1..Len(sent) :
        /\ i < k /\ j < k
        /\ ExpectedEntries(sent[i].pages) # <<>>
        /\ Len(ExternalDetails(sent[i].pages)) > Len(ExpectedEntries(sent[i].pages))
        /\ ExpectedEntries(sent[j].pages) = <<>>
        /\ backlinks # <<>>

(***************************************************************************)
(* Properties of a panicking worker (checked under SpecLive).              *)
(***************************************************************************)
\* the runner has returned: the final batch was sent and the job is Complete,
\* unless it was cancelled; without a cancel the frontier was drained as far as
\* max_pages lets the fill loop go
RunEndedWell ==
    /\ pc = "done"
    /\ sent # <<>> /\ sent[Len(sent)].is_final
    /\ entry.cancel_token \/ entry.status = "Complete"
    /\ \/ cancel_seen >= 0
       \/ pending_count(frontier) = 0
       \/ pages_crawled >= crawl_config.max_pages

\* C28: joining a task that panicked adds exactly 1 to pages_errored, nothing to
\* pages_crawled, and the runner goes on with its loop (the other pipelines stay
\* in the JoinSet); a run with a panicked task still reaches its end: final
\* batch sent, status Complete unless the job was cancelled.
C28_PanicCountedRunGoesOn ==
    /\ [][\A i \in 1..Len(join_set) :
            (pc = "select" /\ cancel_seen' = cancel_seen
               /\ join_set[i].state = "panic"
               /\ join_set' = RemoveAt(join_set, i)) =>
              /\ pages_errored' = pages_errored + 1
              /\ pages_crawled' = pages_crawled
              /\ pc' \in {"fill", "send_callback"}]_vars
    /\ (pc # "none" /\ \E i \in 1..Len(join_set) : join_set[i].state = "panic")
         ~> RunEndedWell

\* an uncancelled run is Complete, every url the frontier handed out was counted,
\* and one of them, /b, is refused by the checker the engine holds: its pipeline
\* can only have panicked; a page was crawled as well
C28_Witness ==
    /\ pc = "done" /\ ~entry.cancel_token /\ entry.status = "Complete"
    /\ robots /\ BlockedByRobots(normalize_url(U_b))
    /\ normalize_url(U_b) \in frontier.seen
    /\ pending_count(frontier) = 0
    /\ pages_crawled + pages_errored = crawled_count(frontier)
    /\ pages_crawled >= 1
    /\ sent # <<>> /\ sent[Len(sent)].is_final

(***************************************************************************)
(* Properties of the batch interval (checked under Spec).                  *)
(***************************************************************************)
\* the accumulator holds pages and batch_interval_secs have passed since the
\* last flush, while the runner waits in its select! and no cancel was asked
IntervalExpired ==
    /\ pc = "select" /\ ~entry.cancel_token
    /\ batch_pages # <<>>
    /\ now - last_batch_time >= config.batch_interval_secs

\* C29: interval expiry is an event of its own: whenever the accumulator is
\* non-empty and the interval has elapsed the runner can take a step (the
\* non-final flush), whether or not a worker has finished.
C29_IntervalExpiryWakesRunner == IntervalExpired => ENABLED RunnerStep

(***************************************************************************)
(* Properties of the page budget and of batching (checked under Spec).     *)
(***************************************************************************)
\* C37: at every point of a run pages_crawled plus the number of pipelines in
\* the JoinSet is at most max_pages, so pages_crawled <= max_pages, whatever
\* the pipelines ended with.
C37_CrawledPlusInFlightWithinMax ==
    /\ pages_crawled + Len(join_set) <= crawl_config.max_pages
    /\ pages_crawled <= crawl_config.max_pages

\* the budget is used up while a pipeline is in flight, after a failed page
C37_Witness ==
    /\ pc = "select" /\ join_set # <<>>
    /\ pages_crawled + Len(join_set) = crawl_config.max_pages
    /\ pages_crawled >= 1 /\ pages_errored >= 1

\* C38: every non-final batch handed to the emitter holds at least one page;
\* joining a task while the accumulator stays empty sends nothing, although the
\* interval has elapsed: batch_index and last_batch_time stay as they are.
C38_NoEmptyNonFinalBatch ==
    /\ [](\A i \in 1..Len(sent) : ~sent[i].is_final => sent[i].pages # <<>>)
    /\ [](pc \in {"send_callback", "send_backlinks"} => batch.pages # <<>>)
    /\ [][(pc = "select" /\ cancel_seen' = cancel_seen /\ Len(join_set') < Len(join_set)
             /\ batch_pages = <<>> /\ pages_crawled' = pages_crawled) =>
            /\ pc' = "fill"
            /\ UNCHANGED <<batch_index, last_batch_time, sent, batch_pages>>]_vars

\* the interval has elapsed, the accumulator is empty, a failed page was joined
\* and the runner is back at the top of its loop without having sent a batch
C38_Witness ==
    /\ pc = "fill" /\ batch_pages = <<>> /\ cancel_seen = -1
    /\ now - last_batch_time >= config.batch_interval_secs
    /\ pages_errored >= 1 /\ sent = <<>> /\ batch_index = 0

\* the pages of the first n batches sent, in order
RECURSIVE PagesSent(_)
PagesSent(n) == IF n = 0 THEN <<>> ELSE PagesSent(n - 1) \o sent[n].pages

\* the pages the runner holds or has sent: the batches sent, the batch built
\* but not sent yet, the accumulator (moved into the final batch at the end)
PagesHeld ==
    PagesSent(Len(sent))
      \o (IF pc = "send_callback" THEN batch.pages ELSE <<>>)
      \o (IF pc \in {"final_backlinks", "finish", "done"} THEN <<>> ELSE batch_pages)

\* C36: batching loses and duplicates no page: the pages joined as Ok are, each
\* once, in the batches sent or still to be sent; when the runner has finished
\* the batches sent hold pages_crawled pages in all, and the final batch's stats
\* are the JobEntry's stats.
C36_NoPageLostOrDuplicated ==
    pc # "none" =>
      /\ Len(PagesHeld) = pages_crawled
      /\ \A i, j \in 1..Len(PagesHeld) : PagesHeld[i].url = PagesHeld[j].url => i = j
      /\ pc = "done" =>
           /\ Len(PagesSent(Len(sent))) = pages_crawled
           /\ sent[Len(sent)].is_final
           /\ entry.stats = Some(sent[Len(sent)].stats)

\* a finished run that sent a non-final batch and a final batch, both with pages
C36_Witness ==
    /\ pc = "done" /\ Len(sent) >= 2 /\ pages_crawled >= 2
    /\ sent[1].pages # <<>> /\ sent[Len(sent)].pages # <<>>

(***************************************************************************)
(* Properties of cancellation and completion (checked under Spec).         *)
(***************************************************************************)
\* C33: once the job's cancellation token is cancelled the runner spawns no
\* further page pipeline, wherever the runner stands when the token fires.
C33_NoSpawnAfterCancel ==
    [][(jobs[JobId] # <<>> /\ pc # "none" /\ entry.cancel_token) =>
          Len(join_set') <= Len(join_set)]_vars

\* C34: Complete is terminal: once the job's status is Complete no step changes
\* the status or the stats of its JobEntry.
C34_CompleteIsTerminal ==
    [][(jobs[JobId] # <<>> /\ entry.status = "Complete") =>
          (entry.status' = "Complete" /\ entry.stats' = entry.stats)]_vars

(***************************************************************************)
(* Properties of repeated submits (checked under SpecSubmit).              *)
(***************************************************************************)
\* C35: for each job id at most one run_crawl_job is ever started, and the
\* entry the map holds for the id, the one status() and cancel() address, is the
\* entry its runner uses, also when submit() is called twice with the same id.
C35_OneRunnerOnTheMappedEntry ==
    manager # NoManager =>
        \A r1, r2 \in 1..Len(manager.runners) :
            manager.runners[r1].job_id = manager.runners[r2].job_id =>
                /\ r1 = r2
                /\ manager.runners[r1].entry = manager.jobs[manager.runners[r1].job_id]

(***************************************************************************)
(* Properties of the page pipeline (checked under SpecPage).               *)
(***************************************************************************)
\* C31: once the fetch has succeeded the pipeline returns Ok whatever the HTML
\* upload, the audit, the renderer and the audit upload did: the audit (the
\* rendered link count) is present exactly when the audit (the render) ran and
\* succeeded, html_r2_key is the intended key, lh_r2_key is the intended key
\* whenever there is an audit, and the runner counts the page as crawled.
C31_PageOkAfterFetch ==
    (page # NoPage /\ page.fetched /\ page.pc \in {"returned", "joined"}) =>
        /\ "ok" \in DOMAIN page.result[1]
        /\ LET r == page.result[1].ok IN
             /\ r.html_r2_key = HtmlKey(JobId, ContentHash)
             /\ (r.lighthouse # <<>>) = (page.lighthouse_fut = "ok")
             /\ r.lighthouse # <<>> =>
                  r.lighthouse[1].lh_r2_key = Some(LhKey(JobId, ContentHash))
             /\ (r.js_rendered_link_count # <<>>) = (page.renderer_fut = "ok")
        /\ page.pc = "joined" => page.counted = "crawled"

\* a page was counted as crawled although both uploads and the renderer failed
C31_Witness ==
    /\ page # NoPage /\ page.pc = "joined" /\ page.counted = "crawled"
    /\ page.html_result = "err" /\ page.lh_upload = "err"
    /\ page.renderer_fut = "err" /\ page.lighthouse_fut = "ok"

(***************************************************************************)
(* Properties of get_limiter (checked under SpecLimiter).                  *)
(***************************************************************************)
\* C32: however concurrent first fetches to a host interleave, one limiter at
\* most is ever created for the host and every fetch to the host holds and
\* waits on that limiter; a fetch waits on the limiter of its own host only,
\* and a request let through changes no limiter of another host.
C32_OneLimiterPerHost ==
    /\ [](\A i, j \in 1..Len(fetcher.limiters) :
            fetcher.limiters[i].domain = fetcher.limiters[j].domain => i = j)
    /\ [](\A t \in 1..Len(fetcher.tasks) :
            fetcher.tasks[t].pc \in {"until_ready", "released"} =>
              LET domain == FetchDomain(fetcher.tasks[t].url) IN
                /\ fetcher.tasks[t].limiter = fetcher.self.domain_limiters[domain]
                /\ fetcher.limiters[fetcher.tasks[t].limiter].domain = domain)
    /\ [][\A t \in 1..Len(fetcher.tasks) :
            (fetcher.tasks[t].pc = "until_ready" /\ fetcher'.tasks[t].pc = "released") =>
              \A l \in 1..Len(fetcher.limiters) :
                  l # fetcher.tasks[t].limiter => fetcher'.limiters[l] = fetcher.limiters[l]]_vars

\* two fetches to e.com both took the slow path and were released through one
\* limiter, the second a full interval later, while the fetch to x.org was
\* released at once through its own
C32_Witness ==
    /\ Len(fetcher.limiters) = 2
    /\ fetcher.tasks[1].pc = "released" /\ fetcher.tasks[2].pc = "released"
    /\ fetcher.tasks[1].limiter = fetcher.tasks[2].limiter
    /\ fetcher.tasks[1].at # fetcher.tasks[2].at
    /\ fetcher.tasks[3].pc = "released" /\ fetcher.tasks[3].at = 0
    /\ fetcher.tasks[3].limiter # fetcher.tasks[1].limiter

(***************************************************************************)
(* Properties of the permits (checked under SpecPermit).                   *)
(***************************************************************************)
RunningPipelines == {p \in Pipelines : audits.pipelines[p].state = "running"}

DetailUrls(details) == [i \in 1..Len(details) |-> details[i].url]

\* the static inputs have one detail per url of the static external list
StaticDetailsMatch ==
    /\ DetailUrls(call.static_external_details) = call.static_external
    /\ \A i, j \in 1..Len(call.static_external) :
         call.static_external[i] = call.static_external[j] => i = j

\* C40: when the static details hold one entry per static external url, the
\* merged details hold at most one entry per url and exactly the urls of the
\* merged external list, also when the rendered list repeats a new external
\* url; a url of the static details keeps its static anchor text and rel.
C40_OneDetailPerExternalUrl ==
    (MergeReturned /\ StaticDetailsMatch) =>
        LET details == call.ret[1].merged_external_details
            external == call.ret[1].merged_external
        IN  /\ \A i, j \in 1..Len(details) : details[i].url = details[j].url => i = j
            /\ SeqRange(DetailUrls(details)) = SeqRange(external)
            /\ \A i \in 1..Len(call.static_external_details) :
                 details[i] = call.static_external_details[i]

====
